---- MODULE Spec2Model ----
(***************************************************************************)
(* Model of the Node Manager core of mutiny-core (src/mutiny-core/src/     *)
(* nodemanager.rs): the persisted node registry (NodeStorage), its         *)
(* in-memory mirror, the running-node map, the two async mutexes guarding  *)
(* them, new_node / archive_node / stop and manager construction, and the  *)
(* background sync loop.                                                   *)
(*                                                                         *)
(* Steps are the code between two suspension points (.await); the one      *)
(* exception is new_node, whose read of the persisted registry and whose   *)
(* write of it are separate steps, because the native build runs tasks on  *)
(* a multi-threaded executor and only the registry-mirror mutex keeps the  *)
(* two together.                                                           *)
(***************************************************************************)
EXTENDS Integers, Sequences, FiniteSets, TLC

(* ------------------------------ bounds --------------------------------- *)

\* new_node calls made on one storage (entries ever created)
MaxNodes == 2

\* callers of the manager's operations that may run concurrently
Procs == {"p1", "p2"}

\* a further caller, which only calls stop()
Stopper == "p3"

\* everything that may be inside an operation of the manager
Tasks == Procs \cup {Stopper}

\* the LSP urls a configuration may name
LspUrls == {"lsp1"}

\* Option::None for an lsp
NoLsp == "None"

\* what archive_node finds in a node: list_channels() and
\* get_claimable_balances() both empty, one non-empty, or both non-empty
FundStates == {"none", "channel", "claimable", "both"}

NoOne == "free"

VARIABLES
    persisted,        \* storage: the NodeStorage under the nodes key (uuid -> NodeIndex)
    assigned,         \* history: child_index of every entry new_node persisted, in order
    okCalls,          \* history: number of new_node calls that returned Ok
    mgr,              \* "none" or "up": whether a NodeManager has been constructed
    stop,             \* NodeManager.stop (AtomicBool)
    node_storage,     \* NodeManager.node_storage: the registry mirror
    nodes,            \* NodeManager.nodes: pubkey -> running node handle
    lsp_clients,      \* NodeManager.lsp_clients (urls)
    node_storage_lock,\* holder of the node_storage mutex
    nodes_lock,       \* holder of the nodes mutex
    storage_conn,     \* storage backend: "connected", "disconnected", "broken"
    storage_stops,    \* whether storage.stop() has been called on this manager
    stop_results,     \* the last stop(): pubkey -> result of the awaited Node::stopped()
    pc,               \* per caller: position in the operation it runs
    ret,              \* the operation that returned last and its result (ok or err)
    existing_nodes,   \* per caller: new_node's local copy of the persisted registry
    next_node,        \* per caller: new_node's (uuid, child_index, lsp)
    ar,               \* per caller: archive_node's argument and what the node holds
    sync_pc,          \* the sync task: position in start_sync's loop
    sync_count,       \* start_sync's sync_count
    nap,              \* the index of the 1-second nap of the loop's sleep
    ldk_sync,         \* this iteration's sync_ldk: "not_run", "running", "ok", "err"
    wallet_sync,      \* this iteration's wallet.sync(): "not_run", "running", "ok", "err"
    done_first_sync   \* storage: the done_first_sync flag

lifecycleVars ==
    <<persisted, assigned, okCalls, mgr, stop, node_storage, nodes, lsp_clients,
      node_storage_lock, nodes_lock, storage_conn, storage_stops, stop_results,
      pc, ret, existing_nodes, next_node, ar>>

syncVars == <<sync_pc, sync_count, nap, ldk_sync, wallet_sync, done_first_sync>>

VARIABLES
    clock,               \* utils::now(), in seconds
    bitcoin_price_cache, \* NodeManager.bitcoin_price_cache: <<>> or <<(price, timestamp)>>
    price_lock,          \* holder of the bitcoin_price_cache mutex
    price_call,          \* per caller: position in get_bitcoin_price and its `now`
    price_ret            \* the get_bitcoin_price call that returned last

priceVars == <<clock, bitcoin_price_cache, price_lock, price_call, price_ret>>

VARIABLES
    channels,            \* the nodes' channel managers and chain monitors: id -> channel
    balance              \* the MutinyBalance that get_balance returned last

balanceVars == <<channels, balance>>

VARIABLES
    wallet_txs,          \* the on-chain wallet: txid -> bdk::TransactionDetails
    address_labels,      \* storage: the address-label map, address -> labels
    invoices,            \* the nodes' invoices: id -> MutinyInvoice
    closures,            \* the nodes' channel closures: id -> ChannelClosure
    view                 \* the list query that returned last and its result

activityVars == <<wallet_txs, address_labels, invoices, closures, view>>

VARIABLES
    redshifts,           \* storage: the persisted redshifts, id -> status
    rs_pc,               \* the redshift runner: position in start_redshifts and its loop
    rs_read,             \* the result of the runner's last get_redshifts()
    drivers              \* the tasks spawned for redshifts, each with its own record

redshiftVars == <<redshifts, rs_pc, rs_read, drivers>>

VARIABLES
    payment,             \* the arguments of the last MutinyInvoice::from(PaymentInfo, ..)
    converted            \* the MutinyInvoice it returned

convVars == <<payment, converted>>

VARIABLES
    stored_mnemonic,     \* storage: the value under the mnemonic key, None when absent
    mnemonic,            \* NodeManager.mnemonic, None while no manager exists
    seed_cfg,            \* history: the last construction's c.mnemonic and what it found
    has_nm               \* the last has_node_manager(storage) and the storage it was given

seedVars == <<stored_mnemonic, mnemonic, seed_cfg, has_nm>>

\* the state of the conversions and of the storage's other keys
VARIABLES
    other_keys,          \* storage: the keys other than the mnemonic's and the nodes', key -> value
    exported             \* what the last export_json returned

exportVars == <<other_keys, exported>>

VARIABLES
    peer_storage,        \* storage: the saved peers, pubkey -> metadata
    peer_node_ids,       \* per node: its peer_manager.get_peer_node_ids()
    peer_data            \* per caller: list_peers' read of the saved peers

peerVars == <<peer_storage, peer_node_ids, peer_data>>

VARIABLES
    bip21_args,          \* per caller: create_bip21's amount and labels
    node_invoices,       \* the invoices the nodes have created, in order
    last_revealed,       \* the wallet: the number of addresses it has handed out
    bip21_ret            \* what the last create_bip21 returned

bip21Vars == <<bip21_args, node_invoices, last_revealed, bip21_ret>>

\* the peers, and the invoices and addresses made on request
moreVars == <<peerVars, bip21Vars>>

restVars == <<convVars, seedVars, exportVars, moreVars>>

\* what the registry's operations and the sync loop never touch
viewVars == <<priceVars, balanceVars, activityVars, redshiftVars, restVars>>

vars == <<lifecycleVars, syncVars, viewVars>>

(* ------------------------------ data ----------------------------------- *)

EmptyMap == [x \in {} |-> 0]

\* Option: None and Some(x)
None == <<>>

Some(x) == <<x>>

MapPut(m, k, v) == [x \in DOMAIN m \cup {k} |-> IF x = k THEN v ELSE m[x]]

\* struct NodeIndex { child_index, lsp, archived }
NodeIndex(ci, l, a) == [child_index |-> ci, lsp |-> l, archived |-> a]

\* NodeIndex::is_archived: archived.unwrap_or(false)
is_archived(n) == n.archived

\* the node's public key is derived from the seed and the child index alone
PubkeyOf(ci) == ci

Pubkeys == 0 .. (MaxNodes - 1)

ChildIndices(m) == {m[u].child_index : u \in DOMAIN m}

MaxOf(S) == CHOOSE x \in S : \A y \in S : y <= x

\* a uuid no entry has used (Uuid::new_v4)
FreshUuid == Len(assigned) + 1

NoNode == [uuid |-> 0, child_index |-> -1, lsp |-> NoLsp]

NoArg == [pubkey |-> -1, funds |-> "none"]

(* ------------------------ storage (key-value store) -------------------- *)

\* MutinyStorage::get_nodes: the NodeStorage under the nodes key, empty when absent
get_nodes == persisted

\* MutinyStorage::insert_nodes: the value under the nodes key is replaced
insert_nodes(ns) == persisted' = ns

(* ------------------------------ mutexes -------------------------------- *)

\* the mutex excluding no one
NodeStorageLockUnguarded == TRUE

\* node_storage.lock().await completes only while no one holds the mutex
NodeStorageLockAvailable == node_storage_lock = NoOne

\* nodes.lock().await completes only while no one holds the mutex
NodesLockAvailable == nodes_lock = NoOne

(* ------------------------------ Init ----------------------------------- *)

\* no get_bitcoin_price call is in progress
NoPriceCall == [at |-> "idle", now |-> 0]

\* no get_bitcoin_price call has returned yet
NoPriceRet == [now |-> 0, fetched |-> FALSE, failed |-> FALSE, ok |-> FALSE, price |-> 0]

\* bitcoin_price_cache: Arc::new(Mutex::new(None))
PriceInit ==
    /\ clock = 0
    /\ bitcoin_price_cache = <<>>
    /\ price_lock = NoOne
    /\ price_call = [p \in Tasks |-> NoPriceCall]
    /\ price_ret = NoPriceRet

\* the channels that are followed
MaxChannels == 3

ChannelIds == 1 .. MaxChannels

\* a channel that was not opened yet
NoChannel == [node |-> -1, state |-> "none"]

\* get_balance was not called yet
NoBalance == [called |-> FALSE, lightning |-> 0, force_close |-> 0]

\* no node has a channel
BalanceInit ==
    /\ channels = [c \in ChannelIds |-> NoChannel]
    /\ balance = NoBalance

\* the transactions that are followed
MaxTxs == 3

Txids == 1 .. MaxTxs

\* the invoices and the channel closures that are followed
InvoiceIds == {1, 2}

ClosureIds == {1}

\* no such transaction, invoice or closure yet
NoItem == [none |-> TRUE]

\* no list query has returned yet
NoView == [op |-> "none"]

\* an empty wallet, no label, no invoice and no closure
ActivityInit ==
    /\ wallet_txs = [t \in Txids |-> NoItem]
    /\ address_labels = EmptyMap
    /\ invoices = [i \in InvoiceIds |-> NoItem]
    /\ closures = [i \in ClosureIds |-> NoItem]
    /\ view = NoView

\* the redshifts that are followed
RedshiftIds == {1, 2}

\* RedshiftStatus, and "none" for a redshift that does not exist
RedshiftStatuses ==
    {"ChannelPending", "ChannelOpened", "AttemptingPayments", "ClosingChannels",
     "Completed", "Failed"}

\* no redshift is persisted, the runner is not started
RedshiftInit ==
    /\ redshifts = [r \in RedshiftIds |-> "none"]
    /\ rs_pc = "off"
    /\ rs_read = "none"
    /\ drivers = <<>>

\* no conversion was made yet
NoConversion == [none |-> TRUE]

ConvInit ==
    /\ payment = NoConversion
    /\ converted = NoConversion

\* export_json was not called yet
NoExport == [none |-> TRUE]

\* a storage on which no component has written yet
ExportInit ==
    /\ other_keys = EmptyMap
    /\ exported = NoExport

\* the peers that are followed (their public keys)
PeerKeys == {1, 2}

\* no list_peers call has read the saved peers
NoPeerData == [none |-> TRUE]

\* no peer is saved, no node has a peer
PeerInit ==
    /\ peer_storage = EmptyMap
    /\ peer_node_ids = [k \in Pubkeys |-> {}]
    /\ peer_data = [p \in Tasks |-> NoPeerData]

\* no create_bip21 call is in progress, none has returned
NoBip21 == [none |-> TRUE]

\* no invoice was created, the wallet has handed out no address
Bip21Init ==
    /\ bip21_args = [p \in Tasks |-> NoBip21]
    /\ node_invoices = <<>>
    /\ last_revealed = 0
    /\ bip21_ret = NoBip21

MoreInit == PeerInit /\ Bip21Init

RestInit == ConvInit /\ ExportInit /\ MoreInit

\* a mnemonic: what tells it from another, and its number of words
Mnemonic(id, words) == [id |-> id, words |-> words]

\* the mnemonics a configuration may supply or a storage may hold
Mnemonics == {Mnemonic("a", 12), Mnemonic("b", 24)}

\* keymanager::generate_seed(num_words): the phrases the generator may draw;
\* none is a phrase that is stored or supplied already
generate_seed(num_words) ==
    {Mnemonic(id, num_words) : id \in {"fresh1", "fresh2"}}

\* no construction was made yet
NoSeedCfg == [none |-> TRUE]

\* has_node_manager was not called yet
NoHasNm == [none |-> TRUE]

\* a storage without a mnemonic, no manager
SeedInit ==
    /\ stored_mnemonic = None
    /\ mnemonic = None
    /\ seed_cfg = NoSeedCfg
    /\ has_nm = NoHasNm

\* a storage that holds the mnemonic of an earlier run, no manager
SeedStored ==
    /\ stored_mnemonic = Some(Mnemonic("a", 12))
    /\ mnemonic = None
    /\ seed_cfg = NoSeedCfg
    /\ has_nm = NoHasNm

\* a manager made without a mnemonic in its configuration on a storage that
\* holds one
SeedLoaded ==
    /\ stored_mnemonic = Some(Mnemonic("a", 12))
    /\ mnemonic = stored_mnemonic
    /\ seed_cfg = [supplied |-> None, before |-> stored_mnemonic, read |-> "ok",
                   generated |-> FALSE]
    /\ has_nm = NoHasNm

\* the caches and the views of a manager that was just made
ViewInit == PriceInit /\ BalanceInit /\ ActivityInit /\ RedshiftInit /\ RestInit

StorageConns == {"connected", "disconnected", "broken"}

\* conns: the states the storage backend may be in when a manager is made
InitWith(conns) ==
    /\ persisted = EmptyMap
    /\ assigned = <<>>
    /\ okCalls = 0
    /\ mgr = "none"
    /\ stop = FALSE
    /\ node_storage = EmptyMap
    /\ nodes = EmptyMap
    /\ lsp_clients = {}
    /\ node_storage_lock = NoOne
    /\ nodes_lock = NoOne
    /\ storage_conn \in conns
    /\ storage_stops = FALSE
    /\ stop_results = EmptyMap
    /\ pc = [p \in Tasks |-> "idle"]
    /\ ret = "none"
    /\ existing_nodes = [p \in Tasks |-> EmptyMap]
    /\ next_node = [p \in Tasks |-> NoNode]
    /\ ar = [p \in Tasks |-> NoArg]
    /\ sync_pc = "off"
    /\ sync_count = 0
    /\ nap = 0
    /\ ldk_sync = "not_run"
    /\ wallet_sync = "not_run"
    /\ done_first_sync = FALSE
    /\ ViewInit
    /\ SeedInit

IsIdle(p) == pc[p] = "idle"

(* ------------------------ NodeManager::new ----------------------------- *)

\* Node::new for a registry entry: the handle keeps the entry's uuid and child
\* index; an entry with no lsp gets one of the configured clients (if any)
StartNode(u, n, l) ==
    [uuid |-> u, child_index |-> n.child_index,
     lsp |-> IF n.lsp = NoLsp THEN l ELSE n.lsp]

\* Node::node_index: the handle's current NodeIndex
node_index(h) == NodeIndex(h.child_index, h.lsp, FALSE)

\* every entry started, archived or not
every_node(ns) == DOMAIN ns

\* the entries NodeManager::new starts: the archived ones are filtered out
unarchived_nodes(ns) == {u \in DOMAIN ns : ~is_archived(ns[u])}

\* updated_nodes: uuid -> node_index() of every started handle
updated_nodes(nodes_map) ==
    [u \in {nodes_map[k].uuid : k \in DOMAIN nodes_map} |->
        node_index(CHOOSE h \in {nodes_map[k] : k \in DOMAIN nodes_map} : h.uuid = u)]

\* storage.get_mnemonic(): Ok(mnemonic) is Some, Err is None; Err when nothing
\* is stored and when the read fails
get_mnemonic(read) == IF read = "ok" THEN stored_mnemonic ELSE None

\* has_node_manager: storage.get_mnemonic().is_ok()
has_node_manager(read) == get_mnemonic(read) # None

\* whether the construction generates a mnemonic: none was supplied and
\* get_mnemonic returned Err(_)
generates(supplied, read) == supplied = None /\ get_mnemonic(read) = None

\* let mnemonic = match c.mnemonic { .. }; seed: what generate_seed(12) draws
loaded_mnemonic(supplied, read, seed) ==
    IF supplied # None THEN supplied[1]
    ELSE IF get_mnemonic(read) # None THEN get_mnemonic(read)[1]
    ELSE seed

\* storage.insert_mnemonic of a supplied and of a generated mnemonic
mnemonic_after(supplied, read, seed) ==
    IF supplied # None \/ generates(supplied, read)
    THEN Some(loaded_mnemonic(supplied, read, seed))
    ELSE stored_mnemonic

\* what generate_seed(12) may return in this state
Seeds == generate_seed(12) \ {stored_mnemonic[i] : i \in DOMAIN stored_mnemonic}

\* The construction succeeds: the mnemonic is taken from the configuration, the
\* storage or the generator, every unarchived entry is started, the registry
\* is rewritten from the handles, the mirror keeps what was read.
\* conns: the states the storage backend may be in; urls: the configurable
\* lsps; seeds: the values of c.mnemonic; reads: the results of the storage's
\* reads of the mnemonic
ConstructOkWith(conns, urls, seeds, reads) ==
    /\ \A p \in Tasks : IsIdle(p)
    /\ \E supplied \in seeds, read \in reads, seed \in Seeds :
          /\ mnemonic' = Some(loaded_mnemonic(supplied, read, seed))
          /\ stored_mnemonic' = mnemonic_after(supplied, read, seed)
          /\ seed_cfg' = [supplied |-> supplied, before |-> stored_mnemonic,
                          read |-> read, generated |-> generates(supplied, read)]
          /\ UNCHANGED has_nm
    /\ \E clients \in SUBSET urls :
       LET ns        == get_nodes
           started   == unarchived_nodes(ns)
           lspChoice == IF clients = {} THEN {NoLsp} ELSE clients
       IN  \E pick \in [started -> lspChoice] :
           LET handles == {StartNode(u, ns[u], pick[u]) : u \in started}
               pks     == {PubkeyOf(h.child_index) : h \in handles}
           IN  \E nodes_map \in [pks -> handles] :
               /\ \A k \in pks : PubkeyOf(nodes_map[k].child_index) = k
               /\ insert_nodes(updated_nodes(nodes_map))
               /\ node_storage' = ns
               /\ nodes' = nodes_map
               /\ lsp_clients' = clients
    /\ mgr' = "up"
    /\ stop' = FALSE
    /\ node_storage_lock' = NoOne
    /\ nodes_lock' = NoOne
    /\ storage_stops' = FALSE
    /\ \E c \in conns : storage_conn' = c
    /\ stop_results' = EmptyMap
    /\ ret' = "none"
    /\ UNCHANGED <<assigned, okCalls, pc, existing_nodes, next_node, ar>>
    /\ sync_pc' = "off"
    /\ sync_count' = 0
    /\ nap' = 0
    /\ ldk_sync' = "not_run"
    /\ wallet_sync' = "not_run"
    /\ UNCHANGED <<done_first_sync, priceVars, balanceVars, activityVars, redshiftVars,
                   convVars, exportVars, moreVars>>

\* the construction with no mnemonic in the configuration, on a storage whose
\* reads succeed
ConstructOk(conns, urls) == ConstructOkWith(conns, urls, {None}, {"ok"})

\* The construction fails (a storage read or write, or a Node::new, returns Err):
\* `?` returns before insert_nodes, no manager exists, the registry is as it
\* was. The mnemonic is as it was if the failure came first, else it is written.
ConstructErrWith(seeds, reads) ==
    /\ \A p \in Tasks : IsIdle(p)
    /\ \/ UNCHANGED stored_mnemonic
       \/ \E supplied \in seeds, read \in reads, seed \in Seeds :
             stored_mnemonic' = mnemonic_after(supplied, read, seed)
    /\ mnemonic' = None
    /\ seed_cfg' = NoSeedCfg
    /\ UNCHANGED has_nm
    /\ mgr' = "none"
    /\ stop' = FALSE
    /\ node_storage' = EmptyMap
    /\ nodes' = EmptyMap
    /\ lsp_clients' = {}
    /\ node_storage_lock' = NoOne
    /\ nodes_lock' = NoOne
    /\ storage_stops' = FALSE
    /\ stop_results' = EmptyMap
    /\ ret' = "none"
    /\ UNCHANGED <<persisted, assigned, okCalls, storage_conn, pc,
                   existing_nodes, next_node, ar>>
    /\ sync_pc' = "off"
    /\ sync_count' = 0
    /\ nap' = 0
    /\ ldk_sync' = "not_run"
    /\ wallet_sync' = "not_run"
    /\ UNCHANGED <<done_first_sync, priceVars, balanceVars, activityVars, redshiftVars,
                   convVars, exportVars, moreVars>>

ConstructErr == ConstructErrWith({None}, {"ok"})

\* The construction fails after insert_nodes (new_master, AuthManager::new or
\* auth.create_init returns Err): every node was started and the registry was
\* rewritten from the handles, but no manager exists.
ConstructErrLate(urls) ==
    /\ \A p \in Tasks : IsIdle(p)
    /\ \E seed \in Seeds : stored_mnemonic' = mnemonic_after(None, "ok", seed)
    /\ \E clients \in SUBSET urls :
       LET ns        == get_nodes
           started   == unarchived_nodes(ns)
           lspChoice == IF clients = {} THEN {NoLsp} ELSE clients
       IN  \E pick \in [started -> lspChoice] :
              insert_nodes([u \in started |-> node_index(StartNode(u, ns[u], pick[u]))])
    /\ mnemonic' = None
    /\ seed_cfg' = NoSeedCfg
    /\ UNCHANGED has_nm
    /\ mgr' = "none"
    /\ stop' = FALSE
    /\ node_storage' = EmptyMap
    /\ nodes' = EmptyMap
    /\ lsp_clients' = {}
    /\ node_storage_lock' = NoOne
    /\ nodes_lock' = NoOne
    /\ storage_stops' = FALSE
    /\ stop_results' = EmptyMap
    /\ ret' = "none"
    /\ UNCHANGED <<assigned, okCalls, storage_conn, pc, existing_nodes, next_node, ar>>
    /\ sync_pc' = "off"
    /\ sync_count' = 0
    /\ nap' = 0
    /\ ldk_sync' = "not_run"
    /\ wallet_sync' = "not_run"
    /\ UNCHANGED <<done_first_sync, priceVars, balanceVars, activityVars, redshiftVars,
                   convVars, exportVars, moreVars>>

\* has_node_manager(storage) is called
HasNodeManager(reads) ==
    /\ \E read \in reads :
          has_nm' = [result |-> has_node_manager(read), stored |-> stored_mnemonic,
                     read |-> read]
    /\ UNCHANGED <<lifecycleVars, syncVars, priceVars, balanceVars, activityVars,
                   redshiftVars, convVars, exportVars, moreVars, stored_mnemonic,
                   mnemonic, seed_cfg>>

\* show_seed: self.mnemonic.clone()
show_seed == mnemonic[1]

(* --------------- create_new_node_from_node_manager --------------------- *)

\* the index computed without the + 1
next_node_index_no_increment(existing) ==
    IF DOMAIN existing = {} THEN 0 ELSE MaxOf(ChildIndices(existing))

\* the index of an empty registry taken to be 1
next_node_index_from_one(existing) ==
    IF DOMAIN existing = {} THEN 1 ELSE MaxOf(ChildIndices(existing)) + 1

\* (max existing child_index) + 1, or 0 for an empty registry
next_node_index(existing) ==
    IF DOMAIN existing = {} THEN 0 ELSE MaxOf(ChildIndices(existing)) + 1

\* None without lsp clients, else one of them drawn at random
LspDraws == IF lsp_clients = {} THEN {NoLsp} ELSE lsp_clients

\* the entry made archived
next_node_entry_archived(p) ==
    NodeIndex(next_node[p].child_index, next_node[p].lsp, TRUE)

\* next_node: NodeIndex { child_index: next_node_index, lsp, archived: Some(false) }
next_node_entry(p) ==
    NodeIndex(next_node[p].child_index, next_node[p].lsp, FALSE)

\* new_node is called: it waits for the node_storage mutex
NewNodeCall(p) ==
    /\ mgr = "up"
    /\ IsIdle(p)
    /\ Len(assigned) + Cardinality({q \in Procs : pc[q] \in {"nn_lock", "nn_read"}})
          < MaxNodes
    /\ pc' = [pc EXCEPT ![p] = "nn_lock"]
    /\ UNCHANGED <<persisted, assigned, okCalls, mgr, stop, node_storage, nodes,
                   lsp_clients, node_storage_lock, nodes_lock, storage_conn,
                   storage_stops, stop_results, ret, existing_nodes, next_node, ar>>
    /\ UNCHANGED <<syncVars, viewVars>>

\* node_storage.lock().await completes; then storage.get_nodes()? and the next
\* index
NewNodeRead(p) ==
    /\ pc[p] = "nn_lock"
    /\ NodeStorageLockAvailable
    /\ \/ /\ node_storage_lock' = p
          /\ existing_nodes' = [existing_nodes EXCEPT ![p] = get_nodes]
          /\ \E l \in LspDraws :
                next_node' = [next_node EXCEPT ![p] =
                    [uuid |-> 0, child_index |-> next_node_index(get_nodes), lsp |-> l]]
          /\ pc' = [pc EXCEPT ![p] = "nn_read"]
          /\ UNCHANGED ret
       \/ \* get_nodes returns Err: the guard is dropped, the error returned
          /\ pc' = [pc EXCEPT ![p] = "idle"]
          /\ ret' = "nn_err"
          /\ UNCHANGED <<node_storage_lock, existing_nodes, next_node>>
    /\ UNCHANGED <<persisted, assigned, okCalls, mgr, stop, node_storage, nodes,
                   lsp_clients, nodes_lock, storage_conn, storage_stops,
                   stop_results, ar>>
    /\ UNCHANGED <<syncVars, viewVars>>

\* the new entry is inserted into the copy, the copy is persisted and mirrored
NewNodePersist(p) ==
    /\ pc[p] = "nn_read"
    /\ \/ LET u  == FreshUuid
              e  == next_node_entry(p)
              en == MapPut(existing_nodes[p], u, e)
          IN  /\ insert_nodes(en)
              /\ node_storage' = en
              /\ existing_nodes' = [existing_nodes EXCEPT ![p] = EmptyMap]
              /\ next_node' = [next_node EXCEPT ![p].uuid = u]
              /\ assigned' = Append(assigned, e.child_index)
              /\ pc' = [pc EXCEPT ![p] = "nn_node"]
              /\ UNCHANGED <<node_storage_lock, ret>>
       \/ \* insert_nodes returns Err
          /\ pc' = [pc EXCEPT ![p] = "idle"]
          /\ ret' = "nn_err"
          /\ node_storage_lock' = NoOne
          /\ existing_nodes' = [existing_nodes EXCEPT ![p] = EmptyMap]
          /\ next_node' = [next_node EXCEPT ![p] = NoNode]
          /\ UNCHANGED <<persisted, node_storage, assigned>>
    /\ UNCHANGED <<okCalls, mgr, stop, nodes, lsp_clients, nodes_lock, storage_conn,
                   storage_stops, stop_results, ar>>
    /\ UNCHANGED <<syncVars, viewVars>>

\* Node::new(..).await completes
NewNodeStarted(p) ==
    /\ pc[p] = "nn_node"
    /\ \/ /\ pc' = [pc EXCEPT ![p] = "nn_insert"]
          /\ UNCHANGED <<node_storage_lock, next_node, ret>>
       \/ \* Err(e) => return Err(e): the entry stays persisted, no handle is made
          /\ pc' = [pc EXCEPT ![p] = "idle"]
          /\ ret' = "nn_err"
          /\ node_storage_lock' = NoOne
          /\ next_node' = [next_node EXCEPT ![p] = NoNode]
    /\ UNCHANGED <<persisted, assigned, okCalls, mgr, stop, node_storage, nodes,
                   lsp_clients, nodes_lock, storage_conn, storage_stops,
                   stop_results, existing_nodes, ar>>
    /\ UNCHANGED <<syncVars, viewVars>>

\* nodes.lock().await completes: the handle is inserted under its pubkey and
\* Ok(NodeIdentity { uuid, pubkey }) is returned; both guards are dropped
NewNodeInsert(p) ==
    /\ pc[p] = "nn_insert"
    /\ NodesLockAvailable
    /\ nodes' = MapPut(nodes, PubkeyOf(next_node[p].child_index),
                       [uuid |-> next_node[p].uuid,
                        child_index |-> next_node[p].child_index,
                        lsp |-> next_node[p].lsp])
    /\ node_storage_lock' = NoOne
    /\ okCalls' = okCalls + 1
    /\ next_node' = [next_node EXCEPT ![p] = NoNode]
    /\ pc' = [pc EXCEPT ![p] = "idle"]
    /\ ret' = "nn_ok"
    /\ UNCHANGED <<persisted, assigned, mgr, stop, node_storage, lsp_clients,
                   nodes_lock, storage_conn, storage_stops, stop_results,
                   existing_nodes, ar>>
    /\ UNCHANGED <<syncVars, viewVars>>

(* ------------------------- archive_node -------------------------------- *)

\* channel_manager.list_channels().is_empty()
NoChannels(f) == f \in {"none", "claimable"}

\* chain_monitor.get_claimable_balances(&[]).is_empty()
NoClaimable(f) == f \in {"none", "channel"}

\* the funds check that looks at the channels alone
MayArchiveChannelsOnly(f) == NoChannels(f)

\* the condition under which archive_node goes on to archive_node_by_uuid
MayArchive(f) == NoChannels(f) /\ NoClaimable(f)

\* archive_node(pubkey) is called on a node that holds f (drawn from held)
ArchiveCall(p, held) ==
    /\ mgr = "up"
    /\ IsIdle(p)
    /\ \E k \in Pubkeys, f \in held :
          ar' = [ar EXCEPT ![p] = [pubkey |-> k, funds |-> f]]
    /\ pc' = [pc EXCEPT ![p] = "ar_lock"]
    /\ UNCHANGED <<persisted, assigned, okCalls, mgr, stop, node_storage, nodes,
                   lsp_clients, node_storage_lock, nodes_lock, storage_conn,
                   storage_stops, stop_results, ret, existing_nodes, next_node>>
    /\ UNCHANGED <<syncVars, viewVars>>

\* nodes.lock().await completes; lookup of the pubkey and the funds check. The
\* guard is a temporary of the `if let` scrutinee: it lives to the end of the
\* statement, so it is still held while archive_node_by_uuid is awaited.
ArchiveCheck(p) ==
    /\ pc[p] = "ar_lock"
    /\ NodesLockAvailable
    /\ IF ar[p].pubkey \in DOMAIN nodes /\ MayArchive(ar[p].funds)
       THEN /\ nodes_lock' = p
            /\ pc' = [pc EXCEPT ![p] = "ar_uuid"]
            /\ UNCHANGED <<ar, ret>>
       ELSE /\ pc' = [pc EXCEPT ![p] = "idle"]
            /\ ret' = "ar_err"
            /\ ar' = [ar EXCEPT ![p] = NoArg]
            /\ UNCHANGED nodes_lock
    /\ UNCHANGED <<persisted, assigned, okCalls, mgr, stop, node_storage, nodes,
                   lsp_clients, node_storage_lock, storage_conn, storage_stops,
                   stop_results, existing_nodes, next_node>>
    /\ UNCHANGED <<syncVars, viewVars>>

\* the archived entry written through to the storage as well
mark_archived_and_save(node_uuid) ==
    /\ node_storage' = [node_storage EXCEPT ![node_uuid].archived = TRUE]
    /\ insert_nodes(node_storage')

\* node.archived = Some(true); node_storage.nodes.insert(node_uuid, node):
\* the guarded mirror is changed, the storage is not written
mark_archived(node_uuid) ==
    /\ node_storage' = [node_storage EXCEPT ![node_uuid].archived = TRUE]
    /\ UNCHANGED persisted

\* archive_node_by_uuid: node_storage.lock().await completes; the mirror's entry
\* gets archived = Some(true)
ArchiveByUuid(p) ==
    /\ pc[p] = "ar_uuid"
    /\ NodeStorageLockAvailable
    /\ LET node_uuid == nodes[ar[p].pubkey].uuid
       IN  IF node_uuid \in DOMAIN node_storage
           THEN /\ mark_archived(node_uuid)
                /\ ret' = "ar_ok"
           ELSE /\ ret' = "ar_err"
                /\ UNCHANGED <<node_storage, persisted>>
    /\ pc' = [pc EXCEPT ![p] = "idle"]
    /\ nodes_lock' = NoOne
    /\ ar' = [ar EXCEPT ![p] = NoArg]
    /\ UNCHANGED <<assigned, okCalls, mgr, stop, nodes, lsp_clients,
                   node_storage_lock, storage_conn, storage_stops, stop_results,
                   existing_nodes, next_node>>
    /\ UNCHANGED <<syncVars, viewVars>>

(* ------------------------------ stop ----------------------------------- *)

\* stop() is called: self.stop.swap(true)
StopCall(p) ==
    /\ mgr = "up"
    /\ IsIdle(p)
    /\ stop' = TRUE
    /\ pc' = [pc EXCEPT ![p] = "st_lock"]
    /\ UNCHANGED <<persisted, assigned, okCalls, mgr, node_storage, nodes,
                   lsp_clients, node_storage_lock, nodes_lock, storage_conn,
                   storage_stops, stop_results, ret, existing_nodes, next_node, ar>>
    /\ UNCHANGED <<syncVars, viewVars>>

\* nodes.lock().await completes; join_all over every node's stopped() starts
StopLock(p) ==
    /\ pc[p] = "st_lock"
    /\ NodesLockAvailable
    /\ nodes_lock' = p
    /\ pc' = [pc EXCEPT ![p] = "st_join"]
    /\ UNCHANGED <<persisted, assigned, okCalls, mgr, stop, node_storage, nodes,
                   lsp_clients, node_storage_lock, storage_conn, storage_stops,
                   stop_results, ret, existing_nodes, next_node, ar>>
    /\ UNCHANGED <<syncVars, viewVars>>

\* a failed connected() taken for a connection (unwrap_or(true))
StorageReportsConnectedOrErr == storage_conn # "disconnected"

\* self.storage.connected().unwrap_or(false)
StorageReportsConnected == storage_conn = "connected"

\* the nodes whose stopped() stop() awaits: every entry of the map
NodesToStop == DOMAIN nodes

\* join_all(..).await completes (each stopped() is Ok or Err, an Err is logged),
\* the map is cleared, the storage is stopped if connected, Ok(()) is returned.
\* outcomes: what a node's stopped() may return
StopJoin(p, outcomes) ==
    /\ pc[p] = "st_join"
    /\ \E results \in [NodesToStop -> outcomes] : stop_results' = results
    /\ nodes' = EmptyMap
    /\ IF StorageReportsConnected
       THEN storage_conn' = "disconnected" /\ storage_stops' = TRUE
       ELSE UNCHANGED <<storage_conn, storage_stops>>
    /\ nodes_lock' = NoOne
    /\ pc' = [pc EXCEPT ![p] = "idle"]
    /\ ret' = "st_ok"
    /\ UNCHANGED <<persisted, assigned, okCalls, mgr, stop, node_storage,
                   lsp_clients, node_storage_lock, existing_nodes, next_node, ar>>
    /\ UNCHANGED <<syncVars, viewVars>>

(* ----------------------------- start_sync ------------------------------ *)

\* iterations of the sync loop that are followed
MaxSyncCount == 11

\* for _ in 0..60: the 1-second naps between two iterations
NAPS == 60

\* sync_count % 10 == 0: the iterations that refresh the fee estimates
FEE_EVERY == 10

\* the holder name of the sync task when it has the nodes mutex
SyncTask == "sync"

lifecycleUnchanged == UNCHANGED <<persisted, assigned, okCalls, mgr, stop,
    node_storage, nodes, lsp_clients, node_storage_lock, storage_conn,
    storage_stops, stop_results, pc, ret, existing_nodes, next_node, ar, viewVars>>

\* start_sync: nothing is spawned when the manager is stopped already
StartSync ==
    /\ mgr = "up"
    /\ sync_pc = "off"
    /\ sync_pc' = IF stop THEN "not_spawned" ELSE "top"
    /\ sync_count' = 0
    /\ UNCHANGED <<nap, ldk_sync, wallet_sync, done_first_sync, nodes_lock>>
    /\ lifecycleUnchanged

\* the refresh in every iteration whose number, counted from 1, is a multiple
\* of FEE_EVERY
refreshes_fees_counted_from_one(count) == (count + 1) % FEE_EVERY = 0

\* if sync_count % 10 == 0
refreshes_fees(count) == count % FEE_EVERY = 0

\* the top of the loop: return when stopped; else the fee estimates are
\* refreshed in every FEE_EVERY-th iteration and nm.sync() is called in all
LoopTop ==
    /\ sync_pc = "top"
    /\ sync_pc' = IF stop THEN "returned"
                  ELSE IF refreshes_fees(sync_count) THEN "fee" ELSE "sync"
    /\ ldk_sync' = IF stop THEN ldk_sync ELSE "not_run"
    /\ wallet_sync' = IF stop THEN wallet_sync ELSE "not_run"
    /\ UNCHANGED <<sync_count, nap, done_first_sync, nodes_lock>>
    /\ lifecycleUnchanged

\* update_fee_estimates().await completes; Ok or Err, it is only logged
FeeDone ==
    /\ sync_pc = "fee"
    /\ sync_pc' = "sync"
    /\ UNCHANGED <<sync_count, nap, ldk_sync, wallet_sync, done_first_sync, nodes_lock>>
    /\ lifecycleUnchanged

\* the loop left with the error of nm.sync()
ends_loop_on_err(r) == r = "err"

\* if let Err(e) = nm.sync().await { log_error!(..) }: the error is logged and
\* the iteration goes on, whatever nm.sync() returned
ends_loop(r) == FALSE

\* what follows nm.sync() (which returned r) in the loop: the done_first_sync flag in the first
\* iteration (the result of the write is dropped), then the sleep, whose first
\* nap starts unless the manager is stopped
AfterSync(r) ==
    /\ \/ done_first_sync' = (IF sync_count = 0 THEN TRUE ELSE done_first_sync)
       \/ done_first_sync' = done_first_sync
    /\ sync_pc' = IF stop \/ ends_loop(r) THEN "returned" ELSE "nap"
    /\ nap' = 0

\* nm.sync() is entered: Ok(()) at once when stopped, else sync_ldk is called
\* and waits for the nodes mutex
SyncEntry ==
    /\ sync_pc = "sync"
    /\ IF stop
       THEN AfterSync("ok")
       ELSE sync_pc' = "ldk_lock" /\ UNCHANGED <<nap, done_first_sync>>
    /\ UNCHANGED <<sync_count, ldk_sync, wallet_sync, nodes_lock>>
    /\ lifecycleUnchanged

\* sync_ldk: nodes.lock().await completes, the confirmables are listed and
\* tx_sync.sync(confirmables) starts; the guard lives to the end of sync_ldk
LdkLock ==
    /\ sync_pc = "ldk_lock"
    /\ NodesLockAvailable
    /\ nodes_lock' = SyncTask
    /\ ldk_sync' = "running"
    /\ sync_pc' = "ldk"
    /\ UNCHANGED <<sync_count, nap, wallet_sync, done_first_sync>>
    /\ lifecycleUnchanged

\* sync() goes on to the wallet whatever sync_ldk returned
wallet_follows_any(r) == TRUE

\* if let Err(e) = self.sync_ldk().await { return Err(e) }: the wallet is
\* synced only after an Ok
wallet_follows(r) == r = "ok"

\* tx_sync.sync(..).await completes and sync_ldk returns; after Ok the
\* wallet's sync starts, after Err sync() returns the error
LdkDone ==
    /\ sync_pc = "ldk"
    /\ nodes_lock' = NoOne
    /\ \E r \in {"ok", "err"} :
          /\ ldk_sync' = r
          /\ IF wallet_follows(r)
             THEN /\ wallet_sync' = "running"
                  /\ sync_pc' = "wallet"
                  /\ UNCHANGED <<nap, done_first_sync>>
             ELSE /\ AfterSync(r)
                  /\ UNCHANGED wallet_sync
    /\ UNCHANGED sync_count
    /\ lifecycleUnchanged

\* wallet.sync().await completes; sync() returns its result, which is logged
WalletDone ==
    /\ sync_pc = "wallet"
    /\ \E r \in {"ok", "err"} : wallet_sync' = r /\ AfterSync(r)
    /\ UNCHANGED <<sync_count, ldk_sync, nodes_lock>>
    /\ lifecycleUnchanged

\* sleep(1_000).await completes: the next nap starts unless the manager is
\* stopped; after the last one sync_count is incremented and the loop repeats
NapDone ==
    /\ sync_pc = "nap"
    /\ IF nap + 1 < NAPS
       THEN /\ sync_pc' = IF stop THEN "returned" ELSE "nap"
            /\ nap' = IF stop THEN nap ELSE nap + 1
            /\ UNCHANGED sync_count
       ELSE /\ sync_count < MaxSyncCount
            /\ sync_count' = sync_count + 1
            /\ sync_pc' = "top"
            /\ nap' = 0
    /\ UNCHANGED <<ldk_sync, wallet_sync, done_first_sync, nodes_lock>>
    /\ lifecycleUnchanged

(* --------------------------- specification ----------------------------- *)

\* The operations of one manager after another on one storage. The inputs that
\* a specification does not study are pinned: held (what archive_node finds in
\* a node), conns (the storage backend's state), outcomes (the results of the
\* nodes' shutdowns) and urls (the configurable lsps).
NextWith(held, conns, outcomes, urls) ==
    \/ ConstructOk(conns, urls)
    \/ ConstructErr
    \/ ConstructErrLate(urls)
    \/ \E p \in Procs : NewNodeCall(p)
    \/ \E p \in Procs : NewNodeRead(p)
    \/ \E p \in Procs : NewNodePersist(p)
    \/ \E p \in Procs : NewNodeStarted(p)
    \/ \E p \in Procs : NewNodeInsert(p)
    \/ \E p \in Procs : ArchiveCall(p, held)
    \/ \E p \in Procs : ArchiveCheck(p)
    \/ \E p \in Procs : ArchiveByUuid(p)
    \/ \E p \in Procs : StopCall(p)
    \/ \E p \in Procs : StopLock(p)
    \/ \E p \in Procs : StopJoin(p, outcomes)

\* the registry: construction, new_node, archive_node and stop, with lsps
Init == InitWith({"connected"})

Next == NextWith({"none"}, {"connected"}, {"Ok"}, LspUrls)

Spec == Init /\ [][Next]_vars

\* archive_node over everything a node may hold
InitArchive == InitWith({"connected"})

NextArchive == NextWith(FundStates, {"connected"}, {"Ok"}, {})

ArchiveSpec == InitArchive /\ [][NextArchive]_vars

\* stop() over every state of the storage backend and every shutdown result
InitStop == InitWith(StorageConns)

NextStop == NextWith({"none"}, StorageConns, {"Ok", "Err"}, {})

StopSpec == InitStop /\ [][NextStop]_vars

\* The state right after NodeManager::new on a storage in which earlier runs
\* made k nodes (none archived, no lsp configured): k handles are running.
ConstructedRegistry(k) ==
    /\ persisted = [u \in 1 .. k |-> NodeIndex(u - 1, NoLsp, FALSE)]
    /\ assigned = [i \in 1 .. k |-> i - 1]
    /\ okCalls = k
    /\ mgr = "up"
    /\ stop = FALSE
    /\ node_storage = persisted
    /\ nodes = [c \in 0 .. (k - 1) |-> [uuid |-> c + 1, child_index |-> c, lsp |-> NoLsp]]
    /\ lsp_clients = {}
    /\ node_storage_lock = NoOne
    /\ nodes_lock = NoOne
    /\ storage_conn = "connected"
    /\ storage_stops = FALSE
    /\ stop_results = EmptyMap
    /\ pc = [p \in Tasks |-> "idle"]
    /\ ret = "none"
    /\ existing_nodes = [p \in Tasks |-> EmptyMap]
    /\ next_node = [p \in Tasks |-> NoNode]
    /\ ar = [p \in Tasks |-> NoArg]
    /\ sync_pc = "off"
    /\ sync_count = 0
    /\ nap = 0
    /\ ldk_sync = "not_run"
    /\ wallet_sync = "not_run"
    /\ done_first_sync = FALSE

\* ... with empty caches, an empty wallet and no redshift
Constructed(k) == ConstructedRegistry(k) /\ ViewInit /\ SeedLoaded

\* the sync loop of a constructed manager and the stop() calls that end it
InitSync == \E k \in 0 .. MaxNodes : Constructed(k)

NextSync ==
    \/ \E p \in Procs : StopCall(p)
    \/ \E p \in Procs : StopLock(p)
    \/ \E p \in Procs : StopJoin(p, {"Ok"})
    \/ StartSync
    \/ LoopTop
    \/ FeeDone
    \/ SyncEntry
    \/ LdkLock
    \/ LdkDone
    \/ WalletDone
    \/ NapDone

SyncSpec == InitSync /\ [][NextSync]_vars

\* Shutdown while the callers and the sync task are at work: new_node and
\* archive_node calls by the callers, stop() by a further caller, and the first
\* iteration of the sync loop up to its sleep.
NextShutdown ==
    \/ \E p \in Procs : NewNodeCall(p)
    \/ \E p \in Procs : NewNodeRead(p)
    \/ \E p \in Procs : NewNodePersist(p)
    \/ \E p \in Procs : NewNodeStarted(p)
    \/ \E p \in Procs : NewNodeInsert(p)
    \/ \E p \in Procs : ArchiveCall(p, {"none"})
    \/ \E p \in Procs : ArchiveCheck(p)
    \/ \E p \in Procs : ArchiveByUuid(p)
    \/ StopCall(Stopper)
    \/ StopLock(Stopper)
    \/ StopJoin(Stopper, {"Ok"})
    \/ StartSync
    \/ LoopTop
    \/ FeeDone
    \/ SyncEntry
    \/ LdkLock
    \/ LdkDone
    \/ WalletDone

\* Every pending I/O and every node shutdown completes (weak fairness of the
\* steps that follow an await), and a task waiting for a mutex gets it if the
\* mutex is free again and again (strong fairness of the acquisitions).
ShutdownFairness ==
    /\ \A p \in Procs : SF_vars(NewNodeRead(p)) /\ SF_vars(NewNodeInsert(p))
    /\ \A p \in Procs : WF_vars(NewNodePersist(p)) /\ WF_vars(NewNodeStarted(p))
    /\ \A p \in Procs : SF_vars(ArchiveCheck(p)) /\ SF_vars(ArchiveByUuid(p))
    /\ SF_vars(StopLock(Stopper))
    /\ WF_vars(StopJoin(Stopper, {"Ok"}))
    /\ SF_vars(LdkLock)
    /\ WF_vars(LoopTop) /\ WF_vars(FeeDone) /\ WF_vars(SyncEntry)
    /\ WF_vars(LdkDone) /\ WF_vars(WalletDone)

ShutdownSpec == InitSync /\ [][NextShutdown]_vars /\ ShutdownFairness

(* --------------------- PaymentInfo -> MutinyInvoice -------------------- *)

convUnchanged ==
    UNCHANGED <<lifecycleVars, syncVars, priceVars, balanceVars, activityVars, redshiftVars,
                seedVars, exportVars, moreVars>>

\* Option::map
OptMap(F(_), o) == IF o = None THEN None ELSE Some(F(o[1]))

\* |m| m / 1_000: millisatoshis to satoshis, on u64
msat_to_sats(m) == m \div 1000

HexDigits == <<"0", "1", "2", "3", "4", "5", "6", "7", "8", "9", "a", "b", "c", "d", "e", "f">>

RECURSIVE to_hex(_)
\* ToHex::to_hex of a byte array: two lower-case digits per byte, in order
to_hex(bytes) ==
    IF bytes = <<>> THEN <<>>
    ELSE <<HexDigits[(bytes[1] \div 16) + 1], HexDigits[(bytes[1] % 16) + 1]>>
             \o to_hex(Tail(bytes))

\* the first bytes of the preimage of the tests
Preimages == {<<118, 0, 245>>}

PaymentHashes == {"55ecf916", "0001f4a2"}

\* enum HTLCStatus
HTLCStatuses == {"Pending", "InFlight", "Succeeded", "Failed"}

\* the BOLT-11 invoices a payment may carry: with the payee's key (the n
\* field) or without, with no amount, amount 0, less than a satoshi, or the
\* amount of the tests; made at 1681781649, expiring a day later
Invoices ==
    [payment_hash : {"55ecf916"},
     payee_pub_key : {None, Some("02465ed5")},
     amount_milli_satoshis : {None, Some(0), Some(999), Some(100000000)},
     description : {"", "paid"},
     timestamp : {1681781649},
     expiry_time : {86400}]

\* struct PaymentInfo (without the secret, which the conversion does not read)
PaymentInfos ==
    [preimage : {None} \cup {Some(b) : b \in Preimages},
     status : HTLCStatuses,
     amt_msat : {None, Some(1999), Some(100000)},
     fee_paid_msat : {None, Some(1000)},
     bolt11 : {None} \cup {Some(v) : v \in Invoices},
     payee_pubkey : {None, Some("03a1b2c3")},
     last_update : {1681781585}]

\* impl From<Invoice> for MutinyInvoice
from_invoice(value) ==
    [bolt11 |-> Some(value),
     description |-> IF value.description = "" THEN None ELSE Some(value.description),
     payment_hash |-> value.payment_hash,
     preimage |-> None,
     payee_pubkey |-> value.payee_pub_key,
     amount_sats |-> OptMap(msat_to_sats, value.amount_milli_satoshis),
     expire |-> value.timestamp + value.expiry_time,
     paid |-> FALSE,
     fees_paid |-> None,
     inbound |-> TRUE,
     labels |-> <<>>,
     last_updated |-> value.timestamp]

\* the amount of a payment with a bolt11: the invoice's, or the PaymentInfo's
\* when the invoice names none or names 0
bolt11_amount_sats(i, invoice) ==
    IF invoice.amount_milli_satoshis # None /\ invoice.amount_milli_satoshis[1] # 0
    THEN Some(msat_to_sats(invoice.amount_milli_satoshis[1]))
    ELSE OptMap(msat_to_sats, i.amt_msat)

\* MutinyInvoice::from(i: PaymentInfo, payment_hash, inbound, labels)
from_payment_info(i, payment_hash, inbound, labels) ==
    IF i.bolt11 # None
    THEN [from_invoice(i.bolt11[1]) EXCEPT
            !.inbound = inbound,
            !.last_updated = i.last_update,
            !.paid = (i.status = "Succeeded"),
            !.labels = labels,
            !.amount_sats = bolt11_amount_sats(i, i.bolt11[1]),
            !.payee_pubkey = i.payee_pubkey,
            !.preimage = OptMap(to_hex, i.preimage),
            !.fees_paid = OptMap(msat_to_sats, i.fee_paid_msat)]
    ELSE [bolt11 |-> None,
          description |-> None,
          payment_hash |-> payment_hash,
          preimage |-> OptMap(to_hex, i.preimage),
          payee_pubkey |-> i.payee_pubkey,
          amount_sats |-> OptMap(msat_to_sats, i.amt_msat),
          expire |-> i.last_update,
          paid |-> (i.status = "Succeeded"),
          fees_paid |-> OptMap(msat_to_sats, i.fee_paid_msat),
          inbound |-> inbound,
          labels |-> labels,
          last_updated |-> i.last_update]

\* the arguments of one call
ConversionInputs ==
    [i : PaymentInfos, payment_hash : PaymentHashes, inbound : BOOLEAN,
     labels : {<<>>, <<"label1", "label2">>}]

\* a payment of a node is converted for a listing
ConvertPayment ==
    /\ mgr = "up"
    /\ converted = NoConversion
    /\ converted' = from_payment_info(payment.i, payment.payment_hash,
                                      payment.inbound, payment.labels)
    /\ UNCHANGED payment
    /\ convUnchanged

\* a manager about to convert one payment, whatever the payment
InitConv ==
    /\ ConstructedRegistry(0)
    /\ PriceInit
    /\ BalanceInit
    /\ ActivityInit
    /\ RedshiftInit
    /\ SeedLoaded
    /\ ExportInit
    /\ MoreInit
    /\ payment \in ConversionInputs
    /\ converted = NoConversion

NextConv == ConvertPayment

ConvSpec == InitConv /\ [][NextConv]_vars

(* -------------------- connect_to_peer, create_invoice ------------------ *)

\* what an operation that only takes the running-map mutex leaves alone
callUnchanged ==
    UNCHANGED <<persisted, assigned, okCalls, mgr, stop, node_storage, nodes, lsp_clients,
                node_storage_lock, storage_conn, storage_stops, stop_results,
                existing_nodes, next_node, ar, syncVars, viewVars>>

\* connect_to_peer is called: it waits for the nodes mutex
ConnectCall(p) ==
    /\ mgr = "up"
    /\ IsIdle(p)
    /\ pc' = [pc EXCEPT ![p] = "cp_lock"]
    /\ UNCHANGED <<nodes_lock, ret>>
    /\ callUnchanged

\* nodes.lock().await completes; the node is looked up and the connection
\* string parsed, then node.connect_peer(..) starts. The guard is a temporary
\* of the `if let` scrutinee: it is held to the end of the statement, so while
\* connect_peer is awaited. Without the node NotFound is returned, with a bad
\* connection string its error.
ConnectLock(p) ==
    /\ pc[p] = "cp_lock"
    /\ NodesLockAvailable
    /\ \E self_node_pubkey \in Pubkeys, parsed \in BOOLEAN :
          IF self_node_pubkey \in DOMAIN nodes /\ parsed
          THEN /\ nodes_lock' = p
               /\ pc' = [pc EXCEPT ![p] = "cp_io"]
               /\ UNCHANGED ret
          ELSE /\ pc' = [pc EXCEPT ![p] = "idle"]
               /\ ret' = "cp_err"
               /\ UNCHANGED nodes_lock
    /\ callUnchanged

\* node.connect_peer(..).await completes; its result is returned
ConnectDone(p) ==
    /\ pc[p] = "cp_io"
    /\ nodes_lock' = NoOne
    /\ pc' = [pc EXCEPT ![p] = "idle"]
    /\ \E r \in {"cp_ok", "cp_err"} : ret' = r
    /\ callUnchanged

\* create_invoice is called: it waits for the nodes mutex
InvoiceCall(p) ==
    /\ mgr = "up"
    /\ IsIdle(p)
    /\ pc' = [pc EXCEPT ![p] = "ci_lock"]
    /\ UNCHANGED <<nodes_lock, ret>>
    /\ callUnchanged

\* nodes.lock().await completes; InvoiceCreationFailed without a node, else
\* first_node.create_invoice(..) starts, the guard `nodes` still alive
InvoiceLock(p) ==
    /\ pc[p] = "ci_lock"
    /\ NodesLockAvailable
    /\ IF DOMAIN nodes = {}
       THEN /\ pc' = [pc EXCEPT ![p] = "idle"]
            /\ ret' = "ci_err"
            /\ UNCHANGED nodes_lock
       ELSE /\ nodes_lock' = p
            /\ pc' = [pc EXCEPT ![p] = "ci_io"]
            /\ UNCHANGED ret
    /\ callUnchanged

\* first_node.create_invoice(..).await completes; the invoice or the error is
\* returned
InvoiceDone(p) ==
    /\ pc[p] = "ci_io"
    /\ nodes_lock' = NoOne
    /\ pc' = [pc EXCEPT ![p] = "idle"]
    /\ \E r \in {"ci_ok", "ci_err"} : ret' = r
    /\ callUnchanged

\* the callers' connect_to_peer and create_invoice, the first iteration of the
\* sync loop and a stop()
NextCalls ==
    \/ \E p \in Procs : ConnectCall(p)
    \/ \E p \in Procs : ConnectLock(p)
    \/ \E p \in Procs : ConnectDone(p)
    \/ \E p \in Procs : InvoiceCall(p)
    \/ \E p \in Procs : InvoiceLock(p)
    \/ \E p \in Procs : InvoiceDone(p)
    \/ StopCall(Stopper)
    \/ StopLock(Stopper)
    \/ StopJoin(Stopper, {"Ok"})
    \/ StartSync
    \/ LoopTop
    \/ FeeDone
    \/ SyncEntry
    \/ LdkLock
    \/ LdkDone
    \/ WalletDone

CallsSpec == InitSync /\ [][NextCalls]_vars

(* ----------------------------- the mnemonic --------------------------- *)

\* the values of c.mnemonic
SeedChoices == {None} \cup {Some(m) : m \in Mnemonics}

\* Managers made one after another on a storage that starts without a
\* mnemonic, with and without a mnemonic in the configuration, the read of the
\* stored mnemonic succeeding or not, and has_node_manager in between.
InitSeed == InitWith({"connected"})

NextSeed ==
    \/ ConstructOkWith({"connected"}, {}, SeedChoices, {"ok", "err"})
    \/ ConstructErrWith(SeedChoices, {"ok", "err"})
    \/ HasNodeManager({"ok", "err"})

SeedSpec == InitSeed /\ [][NextSeed]_vars

\* ... on a storage whose reads never fail
NextSeedReadable ==
    \/ ConstructOkWith({"connected"}, {}, SeedChoices, {"ok"})
    \/ ConstructErrWith(SeedChoices, {"ok"})
    \/ HasNodeManager({"ok"})

SeedReadableSpec == InitSeed /\ [][NextSeedReadable]_vars

(* ------------------------ export_json, reset_router -------------------- *)

exportUnchanged ==
    UNCHANGED <<persisted, assigned, okCalls, mgr, stop, node_storage, nodes, lsp_clients,
                node_storage_lock, nodes_lock, stop_results, pc, ret, existing_nodes,
                next_node, ar, syncVars, priceVars, balanceVars, activityVars,
                redshiftVars, convVars, seedVars, moreVars>>

MNEMONIC_KEY == "mnemonic"

NODES_KEY == "nodes"

LOGGING_KEY == "logs"

NETWORK_GRAPH_KEY == "network_graph"

GOSSIP_SYNC_TIME_KEY == "last_sync_timestamp"

PROB_SCORER_KEY == "prob_scorer"

\* the keys the logger and the gossip write
OtherKeys == {LOGGING_KEY, NETWORK_GRAPH_KEY, GOSSIP_SYNC_TIME_KEY, PROB_SCORER_KEY}

\* storage.scan("", None): every key of the storage with its value
scan ==
    [k \in DOMAIN other_keys \cup {NODES_KEY}
            \cup (IF stored_mnemonic = None THEN {} ELSE {MNEMONIC_KEY}) |->
        IF k = NODES_KEY THEN persisted
        ELSE IF k = MNEMONIC_KEY THEN stored_mnemonic[1]
        ELSE other_keys[k]]

\* the filter that drops everything the gossip stores
kept_without_gossip(k) ==
    k \notin {LOGGING_KEY, NETWORK_GRAPH_KEY, GOSSIP_SYNC_TIME_KEY, PROB_SCORER_KEY}

\* !matches!(k.as_str(), LOGGING_KEY | NETWORK_GRAPH_KEY)
kept(k) == k \notin {LOGGING_KEY, NETWORK_GRAPH_KEY}

\* serde_json::map::Map::from_iter(map.into_iter().filter(..))
filtered(map) == [k \in {x \in DOMAIN map : kept(x)} |-> map[k]]

\* !self.storage.clone().connected().unwrap_or(true)
needs_db_connection == storage_conn = "disconnected"

\* The storage's connection around a read or a delete: started first when it was
\* closed (a failed start returns the error), and shut down again after, unless
\* the operation in between returned its error with `?`.
\* started: start() succeeded; done: the operation in between succeeded
Reconnected(started, done) ==
    IF needs_db_connection /\ started
    THEN /\ storage_conn' = IF done THEN "disconnected" ELSE "connected"
         /\ storage_stops' = (storage_stops \/ done)
    ELSE UNCHANGED <<storage_conn, storage_stops>>

\* export_json
ExportJson ==
    /\ mgr = "up"
    /\ \E started \in BOOLEAN, scanned \in BOOLEAN :
          LET ok == (needs_db_connection => started) /\ scanned
          IN  /\ Reconnected(started, scanned)
              /\ exported' = IF ok THEN [ok |-> TRUE, value |-> filtered(scan)]
                                    ELSE [ok |-> FALSE]
    /\ UNCHANGED other_keys
    /\ exportUnchanged

\* reset_router: the keys of the routing data are deleted
ResetRouter ==
    /\ mgr = "up"
    /\ \E started \in BOOLEAN, deleted \in BOOLEAN :
          LET ok == (needs_db_connection => started) /\ deleted
          IN  /\ Reconnected(started, deleted)
              /\ other_keys' =
                    IF ok
                    THEN [k \in DOMAIN other_keys \
                               {GOSSIP_SYNC_TIME_KEY, NETWORK_GRAPH_KEY, PROB_SCORER_KEY} |->
                             other_keys[k]]
                    ELSE other_keys
    /\ UNCHANGED exported
    /\ exportUnchanged

\* a manager with one node on a storage in which the logger and the gossip
\* have written any of their keys
InitExport ==
    /\ ConstructedRegistry(1)
    /\ PriceInit
    /\ BalanceInit
    /\ ActivityInit
    /\ RedshiftInit
    /\ ConvInit
    /\ MoreInit
    /\ SeedLoaded
    /\ \E K \in SUBSET OtherKeys : other_keys \in [K -> {"v1", "v2"}]
    /\ exported = NoExport

NextExport ==
    \/ ExportJson
    \/ ResetRouter
    \/ StopCall(Stopper)
    \/ StopLock(Stopper)
    \/ StopJoin(Stopper, {"Ok"})

ExportSpec == InitExport /\ [][NextExport]_vars

(* ------------------- a storage that holds a registry ------------------- *)

\* The storage handed to NodeManager::new holds k entries, those of `gone`
\* archived (archived: Some(true)); no manager exists yet.
Stored(k, gone) ==
    /\ persisted = [u \in 1 .. k |-> NodeIndex(u - 1, NoLsp, u \in gone)]
    /\ assigned = [i \in 1 .. k |-> i - 1]
    /\ okCalls = k
    /\ mgr = "none"
    /\ stop = FALSE
    /\ node_storage = EmptyMap
    /\ nodes = EmptyMap
    /\ lsp_clients = {}
    /\ node_storage_lock = NoOne
    /\ nodes_lock = NoOne
    /\ storage_conn = "connected"
    /\ storage_stops = FALSE
    /\ stop_results = EmptyMap
    /\ pc = [p \in Tasks |-> "idle"]
    /\ ret = "none"
    /\ existing_nodes = [p \in Tasks |-> EmptyMap]
    /\ next_node = [p \in Tasks |-> NoNode]
    /\ ar = [p \in Tasks |-> NoArg]
    /\ sync_pc = "off"
    /\ sync_count = 0
    /\ nap = 0
    /\ ldk_sync = "not_run"
    /\ wallet_sync = "not_run"
    /\ done_first_sync = FALSE
    /\ ViewInit
    /\ SeedStored

\* managers made one after another on a storage that holds a registry already,
\* with archived entries or without
InitRegistry == \E k \in 0 .. MaxNodes : \E gone \in SUBSET (1 .. k) : Stored(k, gone)

NextRegistry == NextWith({"none"}, {"connected"}, {"Ok"}, LspUrls)

RegistrySpec == InitRegistry /\ [][NextRegistry]_vars

(* --------------------------- the price cache --------------------------- *)

\* the last second that is followed
MaxClock == 900

\* const BITCOIN_PRICE_CACHE_SEC: u64 = 300
BITCOIN_PRICE_CACHE_SEC == 300

\* the time that passes between two steps: just under and exactly the TTL
Deltas == {BITCOIN_PRICE_CACHE_SEC - 1, BITCOIN_PRICE_CACHE_SEC}

\* what the price feed may answer
Prices == {20000, 30000}

priceUnchanged ==
    UNCHANGED <<lifecycleVars, syncVars, balanceVars, activityVars, redshiftVars, restVars>>

\* time passes
Tick ==
    /\ \E d \in Deltas : clock + d <= MaxClock /\ clock' = clock + d
    /\ UNCHANGED <<bitcoin_price_cache, price_lock, price_call, price_ret>>
    /\ priceUnchanged

\* a cached price expires one second early
CacheFreshOneEarly(cache, now) ==
    cache # <<>> /\ cache[1].timestamp + BITCOIN_PRICE_CACHE_SEC > now + 1

\* Some((price, timestamp)) if *timestamp + 300 s > now
CacheFresh(cache, now) ==
    cache # <<>> /\ cache[1].timestamp + BITCOIN_PRICE_CACHE_SEC > now

\* get_bitcoin_price: now is read, then the cache's mutex is awaited
PriceCall(p) ==
    /\ mgr = "up"
    /\ price_call[p].at = "idle"
    /\ price_call' = [price_call EXCEPT ![p] = [at |-> "lock", now |-> clock]]
    /\ UNCHANGED <<clock, bitcoin_price_cache, price_lock, price_ret>>
    /\ priceUnchanged

\* the mutex is acquired: a fresh cache is written back and returned, else
\* fetch_bitcoin_price() is awaited with the mutex held
PriceLock(p) ==
    /\ price_call[p].at = "lock"
    /\ price_lock = NoOne
    /\ IF CacheFresh(bitcoin_price_cache, price_call[p].now)
       THEN /\ price_ret' = [now |-> price_call[p].now, fetched |-> FALSE,
                             failed |-> FALSE, ok |-> TRUE, price |-> bitcoin_price_cache[1].price]
            /\ price_call' = [price_call EXCEPT ![p] = NoPriceCall]
            /\ UNCHANGED price_lock
       ELSE /\ price_lock' = p
            /\ price_call' = [price_call EXCEPT ![p].at = "fetch"]
            /\ UNCHANGED price_ret
    /\ UNCHANGED <<clock, bitcoin_price_cache>>
    /\ priceUnchanged

\* a failed fetch empties the cache
StaleDropped(cache) == <<>>

\* if let Some((price, timestamp)) = bitcoin_price_cache.as_ref(): the cached
\* pair is what is written back after a failed fetch
StaleKept(cache) == cache

\* fetch_bitcoin_price() returns: Ok(new_price) is cached with this call's now;
\* on Err the cached price of any age is returned, or the error without one
PriceFetched(p) ==
    /\ price_call[p].at = "fetch"
    /\ \/ \E new_price \in Prices :
             /\ bitcoin_price_cache' = <<[price |-> new_price, timestamp |-> price_call[p].now]>>
             /\ price_ret' = [now |-> price_call[p].now, fetched |-> TRUE,
                              failed |-> FALSE, ok |-> TRUE, price |-> new_price]
       \/ /\ bitcoin_price_cache' = StaleKept(bitcoin_price_cache)
          /\ price_ret' = [now |-> price_call[p].now, fetched |-> TRUE,
                           failed |-> TRUE, ok |-> bitcoin_price_cache # <<>>,
                           price |-> IF bitcoin_price_cache # <<>>
                                     THEN bitcoin_price_cache[1].price ELSE 0]
    /\ price_lock' = NoOne
    /\ price_call' = [price_call EXCEPT ![p] = NoPriceCall]
    /\ UNCHANGED clock
    /\ priceUnchanged

\* get_bitcoin_price calls of two callers as time passes
InitPrice == Constructed(0)

NextPrice ==
    \/ Tick
    \/ \E p \in Procs : PriceCall(p)
    \/ \E p \in Procs : PriceLock(p)
    \/ \E p \in Procs : PriceFetched(p)

PriceSpec == InitPrice /\ [][NextPrice]_vars

(* ----------------------------- the balance ----------------------------- *)

balanceUnchanged ==
    UNCHANGED <<lifecycleVars, syncVars, priceVars, activityVars, redshiftVars, restVars>>

\* the funds of channel c: balance_msat while it is open, and the satoshis
\* its monitor reports as claimable
balance_msat(c) == 1000 * (2 ^ (c - 1)) + 600

claimable_amount_satoshis(c) == 2 ^ (c - 1)

RECURSIVE SumOf(_, _)
SumOf(S, kind) ==
    IF S = {} THEN 0
    ELSE LET c == CHOOSE x \in S : TRUE
         IN  (IF kind = "msat" THEN balance_msat(c) ELSE claimable_amount_satoshis(c))
             + SumOf(S \ {c}, kind)

\* n.channel_manager.list_channels(): the channels the manager still has; a
\* force-closed channel has left it
list_channels(n) == {c \in ChannelIds : channels[c].node = n /\ channels[c].state = "open"}

\* n.chain_monitor.get_claimable_balances(ignored): the balances of the node's
\* monitors that are not yet swept, but for the ignored channels
get_claimable_balances(n, ignored) ==
    {c \in ChannelIds : /\ channels[c].node = n
                        /\ channels[c].state \in {"open", "force_closing"}
                        /\ c \notin ignored}

\* no channel is ignored
ignored_none(listed) == {}

\* let ignored_channels: Vec<&ChannelDetails> = channels.iter().collect()
ignored_channels(listed) == listed

\* a channel of a running node becomes usable
OpenChannel(c) ==
    /\ channels[c].state = "none"
    /\ \E n \in DOMAIN nodes : channels' = [channels EXCEPT ![c] = [node |-> n, state |-> "open"]]
    /\ UNCHANGED balance
    /\ balanceUnchanged

\* the channel is closed unilaterally: its funds wait on chain
ForceClose(c) ==
    /\ channels[c].state = "open"
    /\ channels' = [channels EXCEPT ![c].state = "force_closing"]
    /\ UNCHANGED balance
    /\ balanceUnchanged

\* the claim is spent and confirmed: the monitor reports nothing any more
Swept(c) ==
    /\ channels[c].state = "force_closing"
    /\ channels' = [channels EXCEPT ![c].state = "swept"]
    /\ UNCHANGED balance
    /\ balanceUnchanged

\* get_balance, from the nodes mutex on: no await follows it
GetBalance ==
    /\ mgr = "up"
    /\ NodesLockAvailable
    /\ LET lightning_msats ==
               SumOf(UNION {list_channels(n) : n \in DOMAIN nodes}, "msat")
           force_close ==
               SumOf(UNION {get_claimable_balances(n, ignored_channels(list_channels(n)))
                            : n \in DOMAIN nodes}, "sat")
       IN  balance' = [called |-> TRUE,
                       lightning |-> lightning_msats \div 1000,
                       force_close |-> force_close]
    /\ UNCHANGED channels
    /\ balanceUnchanged

\* get_balance over the channels of the running nodes as they open and close
InitBalance == \E k \in 1 .. MaxNodes : Constructed(k)

NextBalance ==
    \/ \E c \in ChannelIds : OpenChannel(c)
    \/ \E c \in ChannelIds : ForceClose(c)
    \/ \E c \in ChannelIds : Swept(c)
    \/ GetBalance

BalanceSpec == InitBalance /\ [][NextBalance]_vars

(* ------------------------ on-chain and activity ------------------------ *)

activityUnchanged ==
    UNCHANGED <<lifecycleVars, syncVars, priceVars, balanceVars, redshiftVars, restVars>>

\* the timestamps that are followed
Times == {1234, 1681781585}

\* ConfirmationTime::Unconfirmed and ConfirmationTime::Confirmed { height, time }
Unconfirmed == [confirmed |-> FALSE, height |-> 0, time |-> 0]

Confirmed(h, t) == [confirmed |-> TRUE, height |-> h, time |-> t]

\* the orderings of Rust: Less, Equal, Greater
IntCmp(a, b) == IF a < b THEN -1 ELSE IF a > b THEN 1 ELSE 0

\* a.then_with(|| b)
ThenWith(a, b) == IF a # 0 THEN a ELSE b

\* #[derive(Ord)] of ConfirmationTime: Confirmed before Unconfirmed, two
\* Confirmed by height and then by time
ConfirmationTimeCmp(a, b) ==
    IF a.confirmed /\ b.confirmed
    THEN ThenWith(IntCmp(a.height, b.height), IntCmp(a.time, b.time))
    ELSE IF a.confirmed THEN -1
    ELSE IF b.confirmed THEN 1
    ELSE 0

\* the transactions are ordered by their txid only
TransactionDetailsCmpByTxid(a, b) == IntCmp(a.txid, b.txid)

\* impl Ord for TransactionDetails
TransactionDetailsCmp(a, b) ==
    ThenWith(ConfirmationTimeCmp(a.confirmation_time, b.confirmation_time),
             IntCmp(a.txid, b.txid))

\* ActivityItem::last_updated: None is <<>>, Some(t) is <<t>>
last_updated(item) ==
    IF item.kind = "OnChain"
    THEN IF item.body.confirmation_time.confirmed
         THEN <<item.body.confirmation_time.time>> ELSE <<>>
    ELSE IF item.kind = "Lightning" THEN <<item.body.last_updated>>
    ELSE <<item.body.timestamp>>

\* None is less than Some
ActivityItemCmpNoneLess(a, b) ==
    LET x == last_updated(a)
        y == last_updated(b)
    IN  IF x # <<>> /\ y # <<>> THEN IntCmp(x[1], y[1])
        ELSE IF x # <<>> THEN 1
        ELSE IF y # <<>> THEN -1
        ELSE 0

\* impl Ord for ActivityItem
ActivityItemCmp(a, b) ==
    LET x == last_updated(a)
        y == last_updated(b)
    IN  IF x # <<>> /\ y # <<>> THEN IntCmp(x[1], y[1])
        ELSE IF x # <<>> THEN -1
        ELSE IF y # <<>> THEN 1
        ELSE 0

\* bool: false is less than true
BoolCmp(a, b) == IntCmp(IF a THEN 1 ELSE 0, IF b THEN 1 ELSE 0)

\* Option<T>: None is less than Some, two Some by their values (a string is
\* named by its rank in the order of strings)
OptionCmp(a, b) ==
    IF a = None /\ b = None THEN 0
    ELSE IF a = None THEN -1
    ELSE IF b = None THEN 1
    ELSE IntCmp(a[1], b[1])

\* impl Ord for MutinyPeer
MutinyPeerCmp(a, b) ==
    ThenWith(BoolCmp(a.is_connected, b.is_connected),
    ThenWith(OptionCmp(a.alias, b.alias),
    ThenWith(IntCmp(a.pubkey, b.pubkey),
             OptionCmp(a.connection_string, b.connection_string))))

\* the comparator of a sort: txs.sort(), vec.sort(), sort_by(|a, b| b.cmp(a)),
\* storage_peers.sort()
Cmp(order, a, b) ==
    IF order = "peers" THEN MutinyPeerCmp(a, b)
    ELSE IF order = "txs" THEN TransactionDetailsCmp(a, b)
    ELSE IF order = "oldest_first" THEN ActivityItemCmp(a, b)
    ELSE ActivityItemCmp(b, a)

\* slice::sort / sort_by: a stable sort; x goes behind the elements that are
\* not greater than it
RECURSIVE InsertSorted(_, _, _)
InsertSorted(order, sorted, x) ==
    IF sorted = <<>> THEN <<x>>
    ELSE IF Cmp(order, Head(sorted), x) <= 0
    THEN <<Head(sorted)>> \o InsertSorted(order, Tail(sorted), x)
    ELSE <<x>> \o sorted

RECURSIVE Sort(_, _)
Sort(order, list) ==
    IF list = <<>> THEN <<>>
    ELSE InsertSorted(order, Sort(order, SubSeq(list, 1, Len(list) - 1)), list[Len(list)])

\* the lists with every element of S once
ListsOf(S) ==
    {l \in [1 .. Cardinality(S) -> S] : \A i, j \in DOMAIN l : l[i] = l[j] => i = j}

RECURSIVE SelectSeqBy(_, _)
SelectSeqBy(list, keep) ==
    IF list = <<>> THEN <<>>
    ELSE (IF Head(list) \in keep THEN <<Head(list)>> ELSE <<>>)
         \o SelectSeqBy(Tail(list), keep)

\* the addresses that get_new_address hands out
MaxAddresses == 2

\* a script_pubkey that is no address (Address::from_script fails)
NoAddress == 0

\* the label lists that callers give
LabelChoices == {<<>>, <<"label1", "label2">>, <<"other">>}

\* the outputs of a transaction: up to two scripts
OutputChoices ==
    {<<>>} \cup {<<a>> : a \in 0 .. MaxAddresses}
           \cup {<<a, b>> : a, b \in 0 .. MaxAddresses}

\* the confirmation states of a transaction; the later block has the earlier time
ConfirmationChoices == {Unconfirmed, Confirmed(1, 1681781585), Confirmed(2, 1234)}

\* the node an invoice or a closure belongs to
ItemNode(id) == PubkeyOf((id - 1) % Cardinality(DOMAIN nodes))

\* get_new_address: a fresh address, stored with the labels
\* (set_address_labels puts the pair in the address-label map)
GetNewAddress ==
    /\ mgr = "up"
    /\ Cardinality(DOMAIN address_labels) < MaxAddresses
    /\ \E labels \in LabelChoices :
          address_labels' = MapPut(address_labels, Cardinality(DOMAIN address_labels) + 1, labels)
    /\ UNCHANGED <<wallet_txs, invoices, closures, view>>
    /\ activityUnchanged

\* the wallet learns of a transaction
ReceiveTx(txid, outs) ==
    /\ wallet_txs[txid] = NoItem
    /\ \E c \in ConfirmationChoices, o \in outs :
          wallet_txs' = [wallet_txs EXCEPT ![txid] =
                            [txid |-> txid, confirmation_time |-> c, output |-> o, labels |-> <<>>]]
    /\ UNCHANGED <<address_labels, invoices, closures, view>>
    /\ activityUnchanged

\* a node stores an invoice; an unpaid one or a paid one
AddInvoice(id) ==
    /\ DOMAIN nodes # {}
    /\ invoices[id] = NoItem
    /\ \E paid \in BOOLEAN, t \in Times :
          /\ ~paid => t = 1234
          /\ invoices' = [invoices EXCEPT ![id] =
                [id |-> id, node |-> ItemNode(id), paid |-> paid, last_updated |-> t]]
    /\ UNCHANGED <<wallet_txs, address_labels, closures, view>>
    /\ activityUnchanged

\* a node stores the closure of a channel
AddClosure(id) ==
    /\ DOMAIN nodes # {}
    /\ closures[id] = NoItem
    /\ \E t \in Times :
          closures' = [closures EXCEPT ![id] = [id |-> id, node |-> ItemNode(id), timestamp |-> t]]
    /\ UNCHANGED <<wallet_txs, address_labels, invoices, view>>
    /\ activityUnchanged

\* the index of the first output of tx whose address has an entry in the map
RECURSIVE find_labelled(_, _, _)
find_labelled(labels_map, output, i) ==
    IF i > Len(output) THEN 0
    ELSE IF output[i] # NoAddress /\ output[i] \in DOMAIN labels_map THEN i
    ELSE find_labelled(labels_map, output, i + 1)

\* the index of the last such output
RECURSIVE find_labelled_last(_, _, _)
find_labelled_last(labels_map, output, i) ==
    IF i > Len(output) THEN 0
    ELSE LET later == find_labelled_last(labels_map, output, i + 1)
         IN  IF later # 0 THEN later
             ELSE IF output[i] # NoAddress /\ output[i] \in DOMAIN labels_map THEN i
             ELSE 0

\* the labels of the last output that has an entry
last_labels(labels_map, tx) ==
    LET i == find_labelled_last(labels_map, tx.output, 1)
    IN  IF i = 0 THEN <<>> ELSE labels_map[tx.output[i]]

\* output.iter().find_map(..).unwrap_or_default()
first_labels(labels_map, tx) ==
    LET i == find_labelled(labels_map, tx.output, 1)
    IN  IF i = 0 THEN <<>> ELSE labels_map[tx.output[i]]

\* add_onchain_labels
add_onchain_labels(labels_map, tx) == [tx EXCEPT !.labels = first_labels(labels_map, tx)]

\* the transactions of the wallet
WalletTxs == {wallet_txs[t] : t \in {x \in Txids : wallet_txs[x] # NoItem}}

\* list_onchain over what wallet.list_transactions(true) returned
list_onchain(txs) ==
    LET sorted == Sort("txs", txs)
    IN  [i \in DOMAIN sorted |-> add_onchain_labels(address_labels, sorted[i])]

ListOnchain ==
    /\ mgr = "up"
    /\ \E txs \in ListsOf(WalletTxs) :
          view' = [op |-> "list_onchain", out |-> list_onchain(txs)]
    /\ UNCHANGED <<wallet_txs, address_labels, invoices, closures>>
    /\ activityUnchanged

\* get_transaction: Ok(None) for a txid the wallet does not have
GetTransaction(txid) ==
    /\ mgr = "up"
    /\ view' = [op |-> "get_transaction", txid |-> txid,
                out |-> IF wallet_txs[txid] = NoItem THEN <<>>
                        ELSE <<add_onchain_labels(address_labels, wallet_txs[txid])>>]
    /\ UNCHANGED <<wallet_txs, address_labels, invoices, closures>>
    /\ activityUnchanged

\* what the nodes outside `failing` hold of a collection
HeldBy(collection, failing) ==
    {collection[i] : i \in {x \in DOMAIN collection :
                               collection[x] # NoItem /\ collection[x].node \notin failing}}

\* every invoice is shown
shown_all(ln) == TRUE

\* if ln.paid: only show paid invoices
shown(ln) == ln.paid

AsItems(kind, list) == [i \in DOMAIN list |-> [kind |-> kind, body |-> list[i]]]

\* the list that get_activity builds before it sorts it
activity_of(lightning, onchain, closed) ==
    AsItems("Lightning", SelectSeqBy(lightning, {ln \in {lightning[i] : i \in DOMAIN lightning} : shown(ln)}))
    \o AsItems("OnChain", onchain)
    \o AsItems("ChannelClosed", closed)

\* get_activity, newest first. list_invoices and list_channel_closures append
\* what each running node returns and skip a node whose list is an Err
\* (failed_invoices, failed_closures); list_onchain lists the wallet.
GetActivity ==
    /\ mgr = "up"
    /\ NodesLockAvailable
    /\ \E failed_invoices \in SUBSET DOMAIN nodes, failed_closures \in SUBSET DOMAIN nodes :
       \E lightning \in ListsOf(HeldBy(invoices, failed_invoices)),
          closed \in ListsOf(HeldBy(closures, failed_closures)),
          txs \in ListsOf(WalletTxs) :
             view' = [op |-> "get_activity",
                      out |-> Sort("newest_first",
                                   activity_of(lightning, list_onchain(txs), closed))]
    /\ UNCHANGED <<wallet_txs, address_labels, invoices, closures>>
    /\ activityUnchanged

\* vec.sort() of a list of activity items: oldest first
SortActivity ==
    /\ mgr = "up"
    /\ \E lightning \in ListsOf(HeldBy(invoices, {})),
          closed \in ListsOf(HeldBy(closures, {})),
          txs \in ListsOf(WalletTxs) :
             view' = [op |-> "sort",
                      out |-> Sort("oldest_first", activity_of(lightning, txs, closed))]
    /\ UNCHANGED <<wallet_txs, address_labels, invoices, closures>>
    /\ activityUnchanged

\* the activity of two transactions and of the two nodes of a manager
InitActivity == Constructed(2)

NextActivity ==
    \/ \E t \in {1, 2} : ReceiveTx(t, {<<>>})
    \/ \E i \in InvoiceIds : AddInvoice(i)
    \/ \E i \in ClosureIds : AddClosure(i)
    \/ GetActivity
    \/ SortActivity

ActivitySpec == InitActivity /\ [][NextActivity]_vars

\* the transactions of a wallet, listed and looked up
InitOnchain == Constructed(0)

NextOnchain ==
    \/ \E t \in Txids : ReceiveTx(t, {<<>>})
    \/ ListOnchain
    \/ \E t \in Txids : GetTransaction(t)

OnchainSpec == InitOnchain /\ [][NextOnchain]_vars

\* the labels of a transaction as addresses are handed out
InitLabel == Constructed(0)

NextLabel ==
    \/ GetNewAddress
    \/ ReceiveTx(1, OutputChoices)
    \/ ListOnchain
    \/ GetTransaction(1)

LabelSpec == InitLabel /\ [][NextLabel]_vars

(* -------------------------- the redshift runner ------------------------ *)

\* the tasks that are followed
MaxDrivers == 3

redshiftUnchanged ==
    UNCHANGED <<lifecycleVars, syncVars, priceVars, balanceVars, activityVars, restVars>>

\* nm.storage.get_redshifts().unwrap_or_default(): nothing after a failed read
get_redshifts(read) == IF read = "ok" THEN redshifts ELSE [r \in RedshiftIds |-> "none"]

\* the task a record is given: attempt_payments(redshift) or
\* close_channels(redshift), with the record as the runner holds it
Driver(kind, r, status) == [kind |-> kind, id |-> r, status |-> status, state |-> "running"]

\* the recovery also resumes the payments of a record in ChannelOpened
resumes_opened_too(status) ==
    IF status \in {"ChannelOpened", "AttemptingPayments"} THEN "attempt_payments"
    ELSE IF status = "ClosingChannels" THEN "close_channels"
    ELSE "none"

\* match redshift.status: what the recovery starts for a record
resumes(status) ==
    IF status = "AttemptingPayments" THEN "attempt_payments"
    ELSE IF status = "ClosingChannels" THEN "close_channels"
    ELSE "none"

\* the tasks spawned for the records of `all` that are in `ids`, in the order
\* of the list
RECURSIVE spawned(_, _, _)
spawned(all, ids, recovery) ==
    IF ids = {} THEN <<>>
    ELSE LET r == CHOOSE x \in ids : \A y \in ids : x <= y
             task == IF recovery
                     THEN (IF resumes(all[r]) = "none" THEN <<>>
                           ELSE <<Driver(resumes(all[r]), r, all[r])>>)
                     ELSE (IF all[r] = "ChannelOpened"
                           THEN <<Driver("attempt_payments", r, "AttemptingPayments")>>
                           ELSE <<>>)
         IN  task \o spawned(all, ids \ {r}, recovery)

\* start_redshifts: the recovery, and the spawn of the loop's task
StartRedshifts ==
    /\ mgr = "up"
    /\ rs_pc = "off"
    /\ \E read \in {"ok", "err"} :
          /\ rs_read' = read
          /\ drivers' = drivers \o spawned(get_redshifts(read), RedshiftIds, TRUE)
    /\ rs_pc' = "top"
    /\ UNCHANGED redshifts
    /\ redshiftUnchanged

\* the loop running on whatever the flag says
loop_breaks_never == FALSE

\* if nm.stop.load(Ordering::Relaxed) { break; }
loop_breaks == stop

\* One iteration of the loop, up to its sleep: break when stopped; else every
\* record read in ChannelOpened is persisted as AttemptingPayments (an Err of
\* persist_redshift is only logged: failed) and given a payment task.
RedshiftScan ==
    /\ rs_pc = "top"
    /\ IF loop_breaks
       THEN /\ rs_pc' = "done"
            /\ UNCHANGED <<redshifts, rs_read, drivers>>
       ELSE \E read \in {"ok", "err"} :
               LET all == get_redshifts(read)
                   opened == {r \in RedshiftIds : all[r] = "ChannelOpened"}
               IN  /\ Len(drivers) + Cardinality(opened) <= MaxDrivers
                   /\ rs_read' = read
                   /\ \E failed \in SUBSET opened :
                         redshifts' = [r \in RedshiftIds |->
                                          IF r \in opened \ failed
                                          THEN "AttemptingPayments" ELSE redshifts[r]]
                   /\ drivers' = drivers \o spawned(all, RedshiftIds, FALSE)
                   /\ rs_pc' = "sleep"
    /\ redshiftUnchanged

\* sleep(10_000).await completes
RedshiftSleepDone ==
    /\ rs_pc = "sleep"
    /\ rs_pc' = "top"
    /\ UNCHANGED <<redshifts, rs_read, drivers>>
    /\ redshiftUnchanged

\* the status a task gives its record next
next_status(status) ==
    IF status = "AttemptingPayments" THEN "ClosingChannels" ELSE "Completed"

\* A task finishes a phase: it sets the next status in the record it holds
\* and persists that record; an Err of the write ends the task.
DriverPersist(i) ==
    /\ i \in DOMAIN drivers
    /\ drivers[i].state = "running"
    /\ LET status == next_status(drivers[i].status)
       IN  \/ /\ redshifts' = [redshifts EXCEPT ![drivers[i].id] = status]
              /\ drivers' = [drivers EXCEPT ![i].status = status,
                                ![i].state = IF status = "Completed" THEN "done" ELSE "running"]
           \/ /\ drivers' = [drivers EXCEPT ![i].state = "failed"]
              /\ UNCHANGED redshifts
    /\ UNCHANGED <<rs_pc, rs_read>>
    /\ redshiftUnchanged

\* the channel of a pending redshift is ready: its record is ChannelOpened
ChannelOpenedEvent(r) ==
    /\ redshifts[r] = "ChannelPending"
    /\ redshifts' = [redshifts EXCEPT ![r] = "ChannelOpened"]
    /\ UNCHANGED <<rs_pc, rs_read, drivers>>
    /\ redshiftUnchanged

\* the runner of a manager made on a storage that holds redshifts of earlier
\* runs in any status
InitRedshift ==
    /\ ConstructedRegistry(0)
    /\ PriceInit
    /\ BalanceInit
    /\ ActivityInit
    /\ RestInit
    /\ SeedLoaded
    /\ redshifts \in [RedshiftIds -> RedshiftStatuses \cup {"none"}]
    /\ rs_pc = "off"
    /\ rs_read = "none"
    /\ drivers = <<>>

NextRedshift ==
    \/ StartRedshifts
    \/ RedshiftScan
    \/ RedshiftSleepDone
    \/ \E r \in RedshiftIds : ChannelOpenedEvent(r)
    \/ \E i \in 1 .. MaxDrivers : DriverPersist(i)
    \/ StopCall(Stopper)
    \/ StopLock(Stopper)
    \/ StopJoin(Stopper, {"Ok"})

RedshiftSpec == InitRedshift /\ [][NextRedshift]_vars

\* the loop's task is scheduled whenever it can run, and its sleep ends
RedshiftFairness == WF_vars(RedshiftScan) /\ WF_vars(RedshiftSleepDone)

RedshiftFairSpec == RedshiftSpec /\ RedshiftFairness

(* ------------------------------ list_peers ----------------------------- *)

\* what the saved peers' metadata may be
PeerMetadatas ==
    [connection_string : {None, Some(1)}, alias : {None, Some(1)},
     color : {None}, label : {None}]

\* struct MutinyPeer
MutinyPeer(pubkey, metadata, is_connected) ==
    [pubkey |-> pubkey, connection_string |-> metadata.connection_string,
     alias |-> metadata.alias, color |-> metadata.color, label |-> metadata.label,
     is_connected |-> is_connected]

\* a peer that is not in the storage: no metadata
NoMetadata == [connection_string |-> None, alias |-> None, color |-> None, label |-> None]

\* the elements of a set of numbers as a list (the order in which a HashMap
\* or a peer manager yields them is left open by the code; the sort that
\* follows is stable and no two different entries of the list compare equal)
RECURSIVE ListOf(_)
ListOf(S) ==
    IF S = {} THEN <<>>
    ELSE LET x == CHOOSE y \in S : \A z \in S : y <= z
         IN  <<x>> \o ListOf(S \ {x})

\* nodes.iter().flat_map(|(_, n)| n.peer_manager.get_peer_node_ids()),
\* over the nodes `ks` of the running map
RECURSIVE connected_peers(_)
connected_peers(ks) ==
    IF ks = {} THEN <<>>
    ELSE LET k == CHOOSE y \in ks : \A z \in ks : y <= z
         IN  ListOf(peer_node_ids[k]) \o connected_peers(ks \ {k})

\* connected_peers.contains(&pubkey)
contains(list, x) == \E i \in DOMAIN list : list[i] = x

\* storage_peers with is_connected set
storage_peers(data, connected) ==
    LET keys == ListOf(DOMAIN data)
    IN  [i \in DOMAIN keys |-> MutinyPeer(keys[i], data[keys[i]], contains(connected, keys[i]))]

\* missing: one entry for every element of connected_peers whose pubkey is
\* not in storage_peers
RECURSIVE missing(_, _)
missing(data, connected) ==
    IF connected = <<>> THEN <<>>
    ELSE (IF Head(connected) \in DOMAIN data THEN <<>>
          ELSE <<MutinyPeer(Head(connected), NoMetadata, TRUE)>>)
         \o missing(data, Tail(connected))

\* storage_peers.append(&mut missing); storage_peers.sort()
list_peers(data, connected) ==
    Sort("peers", storage_peers(data, connected) \o missing(data, connected))

peerUnchanged ==
    UNCHANGED <<persisted, assigned, okCalls, mgr, stop, node_storage, nodes, lsp_clients,
                node_storage_lock, nodes_lock, storage_conn, storage_stops, stop_results,
                existing_nodes, next_node, ar, syncVars, priceVars, balanceVars,
                redshiftVars, convVars, seedVars, exportVars, bip21Vars,
                wallet_txs, address_labels, invoices, closures>>

\* list_peers is called: gossip::get_all_peers(&self.storage)? reads the
\* saved peers or returns the error; then the call waits for the nodes mutex
ListPeersCall(p) ==
    /\ mgr = "up"
    /\ IsIdle(p)
    /\ \/ /\ peer_data' = [peer_data EXCEPT ![p] = peer_storage]
          /\ pc' = [pc EXCEPT ![p] = "lp_lock"]
          /\ UNCHANGED ret
       \/ /\ ret' = "lp_err"
          /\ UNCHANGED <<peer_data, pc>>
    /\ UNCHANGED <<peer_storage, peer_node_ids, view>>
    /\ peerUnchanged

\* nodes.lock().await completes; the list is made and returned, the guard is
\* dropped
ListPeersLock(p) ==
    /\ pc[p] = "lp_lock"
    /\ NodesLockAvailable
    /\ LET connected == connected_peers(DOMAIN nodes)
       IN  view' = [op |-> "list_peers", saved |-> peer_data[p],
                    connected |-> {connected[i] : i \in DOMAIN connected},
                    list |-> list_peers(peer_data[p], connected)]
    /\ peer_data' = [peer_data EXCEPT ![p] = NoPeerData]
    /\ pc' = [pc EXCEPT ![p] = "idle"]
    /\ ret' = "lp_ok"
    /\ UNCHANGED <<peer_storage, peer_node_ids>>
    /\ peerUnchanged

\* a peer connects to a running node, or a node to a peer
PeerConnected(k, peer) ==
    /\ k \in DOMAIN nodes
    /\ peer \notin peer_node_ids[k]
    /\ peer_node_ids' = [peer_node_ids EXCEPT ![k] = @ \cup {peer}]
    /\ UNCHANGED <<peer_storage, peer_data, view, pc, ret>>
    /\ peerUnchanged

\* the connection of a node to a peer ends
PeerDisconnected(k, peer) ==
    /\ peer \in peer_node_ids[k]
    /\ peer_node_ids' = [peer_node_ids EXCEPT ![k] = @ \ {peer}]
    /\ UNCHANGED <<peer_storage, peer_data, view, pc, ret>>
    /\ peerUnchanged

\* the one caller of list_peers
Lister == "p1"

\* a manager running two nodes on a storage that holds the peers saved by
\* earlier runs, with any metadata
InitPeer ==
    /\ ConstructedRegistry(2)
    /\ PriceInit
    /\ BalanceInit
    /\ ActivityInit
    /\ RedshiftInit
    /\ ConvInit
    /\ ExportInit
    /\ Bip21Init
    /\ SeedLoaded
    /\ \E K \in SUBSET PeerKeys : peer_storage \in [K -> PeerMetadatas]
    /\ peer_node_ids = [k \in Pubkeys |-> {}]
    /\ peer_data = [p \in Tasks |-> NoPeerData]

NextPeer ==
    \/ ListPeersCall(Lister)
    \/ ListPeersLock(Lister)
    \/ \E k \in Pubkeys, peer \in PeerKeys : PeerConnected(k, peer)
    \/ \E k \in Pubkeys, peer \in PeerKeys : PeerDisconnected(k, peer)
    \/ StopCall(Stopper)
    \/ StopLock(Stopper)
    \/ StopJoin(Stopper, {"Ok"})

PeerSpec == InitPeer /\ [][NextPeer]_vars

(* ----------------------------- create_bip21 ---------------------------- *)

\* the create_bip21 calls that are followed
MaxBip21Calls == 2

\* the amounts a caller may ask for: None or Some(sats)
AmountChoices == {None, Some(1000)}

bip21Unchanged ==
    UNCHANGED <<persisted, assigned, okCalls, mgr, stop, node_storage, nodes, lsp_clients,
                node_storage_lock, storage_conn, storage_stops, stop_results,
                existing_nodes, next_node, ar, syncVars, priceVars, balanceVars,
                redshiftVars, convVars, seedVars, exportVars, peerVars,
                wallet_txs, invoices, closures, view>>

\* what create_bip21 returns: Ok(MutinyBip21RawMaterials) or Err
Bip21Ok(address, invoice, args) ==
    [ok |-> TRUE, address |-> address, invoice |-> invoice, labels |-> args.labels]

Bip21Err == [ok |-> FALSE]

\* create_bip21(amount, labels) is called: create_invoice waits for the nodes
\* mutex
Bip21Call(p) ==
    /\ mgr = "up"
    /\ IsIdle(p)
    /\ Len(node_invoices) + Cardinality({q \in Procs : pc[q] \in {"b21_lock", "b21_io"}})
          < MaxBip21Calls
    /\ \E amount \in AmountChoices, labels \in LabelChoices :
          bip21_args' = [bip21_args EXCEPT ![p] = [amount |-> amount, labels |-> labels]]
    /\ pc' = [pc EXCEPT ![p] = "b21_lock"]
    /\ UNCHANGED <<nodes_lock, ret, node_invoices, last_revealed, bip21_ret, address_labels>>
    /\ bip21Unchanged

\* create_invoice: nodes.lock().await completes; without a node
\* InvoiceCreationFailed is returned by `?`, else first_node.create_invoice
\* starts
Bip21Lock(p) ==
    /\ pc[p] = "b21_lock"
    /\ NodesLockAvailable
    /\ IF DOMAIN nodes = {}
       THEN /\ pc' = [pc EXCEPT ![p] = "idle"]
            /\ ret' = "b21_err"
            /\ bip21_ret' = Bip21Err
            /\ bip21_args' = [bip21_args EXCEPT ![p] = NoBip21]
            /\ UNCHANGED nodes_lock
       ELSE /\ nodes_lock' = p
            /\ pc' = [pc EXCEPT ![p] = "b21_io"]
            /\ UNCHANGED <<ret, bip21_ret, bip21_args>>
    /\ UNCHANGED <<node_invoices, last_revealed, address_labels>>
    /\ bip21Unchanged

\* wallet.get_address(AddressIndex::New): the next address of the wallet
get_address_new == last_revealed + 1

\* first_node.create_invoice(..).await completes. Err: `?` returns it. Ok: the
\* node has made and stored the invoice; then get_new_address, with no await:
\* try_write fails (the wallet is locked), or the wallet hands out its next
\* address and set_address_labels fails, or the labels are stored; on either
\* failure WalletOperationFailed is returned.
Bip21Invoice(p) ==
    /\ pc[p] = "b21_io"
    /\ LET args == bip21_args[p]
           invoice == Len(node_invoices) + 1
           address == get_address_new
       IN  \/ /\ bip21_ret' = Bip21Err
              /\ UNCHANGED <<node_invoices, last_revealed, address_labels>>
           \/ /\ node_invoices' = Append(node_invoices, args)
              /\ \/ /\ bip21_ret' = Bip21Err
                    /\ UNCHANGED <<last_revealed, address_labels>>
                 \/ /\ last_revealed' = address
                    /\ bip21_ret' = Bip21Err
                    /\ UNCHANGED address_labels
                 \/ /\ last_revealed' = address
                    /\ address_labels' = MapPut(address_labels, address, args.labels)
                    /\ bip21_ret' = Bip21Ok(address, invoice, args)
    /\ ret' = IF bip21_ret'.ok THEN "b21_ok" ELSE "b21_err"
    /\ nodes_lock' = NoOne
    /\ pc' = [pc EXCEPT ![p] = "idle"]
    /\ bip21_args' = [bip21_args EXCEPT ![p] = NoBip21]
    /\ bip21Unchanged

\* the callers' create_bip21 and a stop()
NextBip21 ==
    \/ \E p \in Procs : Bip21Call(p)
    \/ \E p \in Procs : Bip21Lock(p)
    \/ \E p \in Procs : Bip21Invoice(p)
    \/ StopCall(Stopper)
    \/ StopLock(Stopper)
    \/ StopJoin(Stopper, {"Ok"})

Bip21Spec == InitSync /\ [][NextBip21]_vars

(* ======================= the registry's indices ======================== *)

\* no new_node call is between its call and its return
NoNewNodeInFlight ==
    \A p \in Procs : pc[p] \notin {"nn_lock", "nn_read", "nn_node", "nn_insert"}

\* the positions at which new_node holds the node_storage guard
HoldsNodeStorage == {"nn_read", "nn_node", "nn_insert"}

\* C1: in every reachable state no two entries of the persisted NodeStorage
\* have the same child_index.
C1_UniqueChildIndex ==
    \A u, v \in DOMAIN persisted :
        u # v => persisted[u].child_index # persisted[v].child_index

\* two entries persisted, one of them archived in the mirror of a later manager
C1_Witness ==
    /\ Cardinality(DOMAIN persisted) >= 2
    /\ \E u \in DOMAIN node_storage : node_storage[u].archived
    /\ stop

\* C2 as stated: once N new_node calls have returned success (and none is in
\* flight) the child_index values of the NodeStorage are exactly 0 .. N-1.
C2_DenseInSuccessfulCalls ==
    NoNewNodeInFlight => ChildIndices(persisted) = 0 .. (okCalls - 1)

\* C2 amended: the child_index values are exactly 0 .. M-1, M being the number
\* of new_node calls that persisted an entry (the N successful ones and those
\* that failed in Node::new after persisting); the k-th of them was given k-1
\* and the registry has M entries; N <= M, so with no such failure M = N.
C2_DenseInPersistedCalls ==
    /\ ChildIndices(persisted) = 0 .. (Len(assigned) - 1)
    /\ Cardinality(DOMAIN persisted) = Len(assigned)
    /\ \A i \in 1 .. Len(assigned) : assigned[i] = i - 1
    /\ okCalls <= Len(assigned)
    /\ (NoNewNodeInFlight /\ okCalls = Len(assigned))
          => ChildIndices(persisted) = 0 .. (okCalls - 1)

\* two calls, both successful: indices 0 and 1, two entries
C2_Witness ==
    /\ okCalls = 2
    /\ assigned = <<0, 1>>
    /\ Cardinality(DOMAIN persisted) = 2
    /\ NoNewNodeInFlight

\* C3: concurrent new_node calls never get the same child_index: a call holds
\* the node_storage mutex from before it reads the persisted registry until
\* after it has persisted its entry, so no two calls are in that stretch at once.
C3_SerializedAssignment ==
    /\ \A p \in Procs : pc[p] \in HoldsNodeStorage => node_storage_lock = p
    /\ \A p, q \in Procs :
          (p # q /\ pc[p] \in HoldsNodeStorage) => pc[q] \notin HoldsNodeStorage
    /\ \A i, j \in 1 .. Len(assigned) : i # j => assigned[i] # assigned[j]

\* one call awaits Node::new with its entry persisted while another has been
\* called and waits for the mutex
C3_Witness ==
    \E p, q \in Procs :
        /\ pc[p] = "nn_node"
        /\ pc[q] = "nn_lock"
        /\ Len(assigned) >= 1

\* C4: the child_index new_node assigns is strictly greater than every one
\* assigned before on the same storage, whatever archive_node, stop and
\* construction happened in between.
C4_StrictlyIncreasing ==
    \A i, j \in 1 .. Len(assigned) : i < j => assigned[i] < assigned[j]

\* two indices assigned under different configurations (the first entry has an
\* lsp, the second was made with no lsp client), so by two managers
C4_Witness ==
    /\ Len(assigned) = 2
    /\ assigned[1] < assigned[2]
    /\ mgr = "up"
    /\ \E u \in DOMAIN persisted :
          persisted[u].child_index = assigned[1] /\ persisted[u].lsp # NoLsp
    /\ \E u \in DOMAIN persisted :
          persisted[u].child_index = assigned[2] /\ persisted[u].lsp = NoLsp

\* C5: when new_node returns Ok(uuid, pubkey) the persisted NodeStorage has an
\* entry for uuid with archived = false, the mirror has the same entry, and the
\* running map has a handle under pubkey (the handle of that uuid).
C5_NewNodeReturn ==
    [][\A p \in Procs :
          (pc[p] = "nn_insert" /\ pc'[p] = "idle" /\ ret' = "nn_ok") =>
             LET id == next_node[p]
                 pubkey == PubkeyOf(id.child_index)
             IN  /\ id.uuid \in DOMAIN persisted'
                 /\ ~is_archived(persisted'[id.uuid])
                 /\ persisted'[id.uuid].child_index = id.child_index
                 /\ id.uuid \in DOMAIN node_storage'
                 /\ node_storage'[id.uuid] = persisted'[id.uuid]
                 /\ pubkey \in DOMAIN nodes'
                 /\ nodes'[pubkey].uuid = id.uuid]_vars

\* new_node has just returned Ok and its handle is in the map
C5_Witness ==
    /\ ret = "nn_ok"
    /\ okCalls >= 1
    /\ \E k \in DOMAIN nodes :
          nodes[k].uuid \in DOMAIN persisted /\ nodes[k].uuid \in DOMAIN node_storage

(* ============================ archive_node ============================= *)

\* the node has at least one channel or at least one claimable balance
HasFunds(f) == f \in {"channel", "claimable", "both"}

\* C6: for a node p of the running map, archive_node(p) returns an error iff p
\* has a channel or a claimable balance, and an error leaves the mirror and the
\* persisted registry as they were.
C6_ArchiveErrorIffFunds ==
    [][\A p \in Procs :
          /\ (pc[p] = "ar_lock" /\ pc'[p] # "ar_lock" /\ ar[p].pubkey \in DOMAIN nodes) =>
                /\ (pc'[p] = "idle" /\ ret' = "ar_err") <=> HasFunds(ar[p].funds)
                /\ HasFunds(ar[p].funds) =>
                      (node_storage' = node_storage /\ persisted' = persisted)
                /\ ~HasFunds(ar[p].funds) => pc'[p] = "ar_uuid"
          /\ (pc[p] = "ar_uuid" /\ pc'[p] # "ar_uuid") =>
                (pc'[p] = "idle" /\ ret' = "ar_ok")]_vars

\* archive_node has returned an error for a node of the running map (every
\* pubkey is in the map, and the map is as it was when the call looked it up)
C6_Witness ==
    /\ ret = "ar_err"
    /\ DOMAIN nodes = Pubkeys

\* C7: after archive_node(p) succeeds the persisted NodeStorage entry of p has
\* archived = true (so that a later manager does not start p).
C7_ArchivePersisted ==
    [][\A p \in Procs :
          (pc[p] = "ar_uuid" /\ pc'[p] = "idle" /\ ret' = "ar_ok") =>
             LET node_uuid == nodes[ar[p].pubkey].uuid
             IN  /\ node_uuid \in DOMAIN persisted'
                 /\ is_archived(persisted'[node_uuid])]_vars

(* ================================ stop ================================= *)

\* C8: when stop() returns the stop flag is true, the shutdown of every node
\* that was in the running map has been awaited (with either result, and stop
\* returns Ok), the running map is empty, and the storage backend has been told
\* to stop iff it reported itself connected.
C8_StopReturn ==
    [][\A p \in Procs :
          (pc[p] = "st_join" /\ pc'[p] = "idle") =>
             /\ ret' = "st_ok"
             /\ stop'
             /\ DOMAIN stop_results' = DOMAIN nodes
             /\ nodes' = EmptyMap
             /\ (storage_stops' /\ ~storage_stops) <=> (storage_conn = "connected")
             /\ storage_conn = "connected" => storage_conn' = "disconnected"
             /\ storage_conn # "connected" =>
                   (storage_conn' = storage_conn /\ storage_stops' = storage_stops)]_vars

\* stop() has returned after awaiting two nodes, one of whose shutdowns failed,
\* and after stopping the connected storage
C8_Witness ==
    /\ ret = "st_ok"
    /\ stop
    /\ nodes = EmptyMap
    /\ storage_stops
    /\ \E k, l \in DOMAIN stop_results :
          stop_results[k] = "Err" /\ stop_results[l] = "Ok"

(* ============================ the sync loop ============================ *)

\* C9: in every iteration the Lightning sync has completed, successfully,
\* before the on-chain wallet sync starts.
C9_LdkBeforeWallet ==
    /\ wallet_sync # "not_run" => ldk_sync = "ok"
    /\ sync_pc = "wallet" <=> wallet_sync = "running"
    /\ sync_pc = "ldk" <=> ldk_sync = "running"

\* the wallet sync of a later iteration is running, over a manager with nodes
C9_Witness ==
    /\ wallet_sync = "running"
    /\ ldk_sync = "ok"
    /\ sync_count >= 1
    /\ DOMAIN nodes # {}

\* a Lightning sync or an on-chain sync starts in this step
SyncStarts ==
    \/ ldk_sync' = "running" /\ ldk_sync # "running"
    \/ wallet_sync' = "running" /\ wallet_sync # "running"

\* C10: once the stop flag is set the sync loop starts no new Lightning or
\* on-chain sync (and start_sync called with the flag set spawns no loop).
C10_NoSyncStartsOnceStopped ==
    [][/\ stop => ~SyncStarts
       /\ (stop /\ sync_pc = "off") => sync_pc' \in {"off", "not_spawned"}]_vars

(* ============================== shutdown =============================== *)

\* C11: a stop() call made while background work is in flight (a sync
\* iteration inside sync_ldk, a new_node call) eventually returns, under
\* fairness and with every pending I/O and node shutdown completing.
C11_StopReturns == (pc[Stopper] = "st_lock") ~> (pc[Stopper] = "idle" /\ ret = "st_ok")

(* ============================ the price cache ========================== *)

\* caller p's get_bitcoin_price call returns in this step
PriceReturns(p) == price_call[p].at # "idle" /\ price_call'[p].at = "idle"

\* C12 as stated: of two calls within 300 seconds of each other, the first of
\* which returned a price, the second performs no fetch and returns the same
\* price.
C12_NoFetchWithin300OfOkCall ==
    [][\A p \in Procs :
          (/\ PriceReturns(p)
           /\ price_ret.ok
           /\ price_call[p].now >= price_ret.now
           /\ price_call[p].now - price_ret.now < BITCOIN_PRICE_CACHE_SEC)
          => (/\ ~price_ret'.fetched
              /\ price_ret'.ok
              /\ price_ret'.price = price_ret.price)]_vars

\* C12, amended: a call that starts less than 300 seconds after the start of
\* the call whose successful fetch filled the cache performs no fetch and
\* returns the price of that fetch.
C12_NoFetchWithin300OfFetch ==
    [][\A p \in Procs :
          (/\ PriceReturns(p)
           /\ bitcoin_price_cache # <<>>
           /\ price_call[p].now - bitcoin_price_cache[1].timestamp < BITCOIN_PRICE_CACHE_SEC)
          => (/\ price_call[p].at = "lock"
              /\ ~price_ret'.fetched
              /\ price_ret'.ok
              /\ price_ret'.price = bitcoin_price_cache[1].price
              /\ bitcoin_price_cache' = bitcoin_price_cache)]_vars

\* a call made 299 seconds after the call that fetched has returned the cached
\* price without a fetch
C12_Witness ==
    /\ price_ret.ok
    /\ ~price_ret.fetched
    /\ bitcoin_price_cache # <<>>
    /\ price_ret.now = bitcoin_price_cache[1].timestamp + BITCOIN_PRICE_CACHE_SEC - 1
    /\ price_ret.price = bitcoin_price_cache[1].price

\* C13: when the fetch that a call needed fails, a cached price of any age is
\* returned and the cache is left as it was, still expired for every call that
\* starts no earlier; with an empty cache the call returns the error and the
\* cache stays empty.
C13_FailedFetchKeepsCache ==
    [][\A p \in Procs :
          (/\ PriceReturns(p)
           /\ price_ret'.failed)
          => (/\ price_call[p].at = "fetch"
              /\ ~CacheFresh(bitcoin_price_cache, price_call[p].now)
              /\ bitcoin_price_cache' = bitcoin_price_cache
              /\ IF bitcoin_price_cache = <<>>
                 THEN ~price_ret'.ok
                 ELSE /\ price_ret'.ok
                      /\ price_ret'.price = bitcoin_price_cache[1].price
                      /\ \A t \in price_call[p].now .. MaxClock :
                            ~CacheFresh(bitcoin_price_cache', t))]_vars

\* a call whose fetch failed has returned a price cached 600 seconds before
C13_Witness ==
    /\ price_ret.ok
    /\ price_ret.failed
    /\ bitcoin_price_cache # <<>>
    /\ price_ret.now = bitcoin_price_cache[1].timestamp + 2 * BITCOIN_PRICE_CACHE_SEC
    /\ price_ret.price = bitcoin_price_cache[1].price

(* ============================== the balance ============================ *)

ChannelsIn(state) == {c \in ChannelIds : channels[c].state = state}

\* C14: get_balance().lightning sums the channels that the managers list and
\* nothing of a force-closing channel, force_close sums the claimable balances
\* of the channels that are not listed, and no channel is counted in both.
C14_ForceCloseNotInLightning ==
    [][balance' # balance =>
          /\ balance'.lightning = SumOf(ChannelsIn("open"), "msat") \div 1000
          /\ balance'.force_close = SumOf(ChannelsIn("force_closing"), "sat")]_vars

\* a balance taken with an open and a force-closing channel
C14_Witness ==
    /\ balance.called
    /\ balance.lightning > 0
    /\ balance.force_close > 0
    /\ ChannelsIn("open") # {}
    /\ ChannelsIn("force_closing") # {}

(* ======================== on-chain and activity ======================== *)

\* a list query returns in this step
Returns(op) == view' # view /\ view'.op = op

BodiesOf(list, kind) == {list[j].body : j \in {x \in DOMAIN list : list[x].kind = kind}}

Present(collection) == {collection[i] : i \in {x \in DOMAIN collection : collection[x] # NoItem}}

HasTime(item) == last_updated(item) # <<>>

TimeOf(item) == last_updated(item)[1]

\* items without a timestamp first, then the timestamped ones, newest first
NewestFirst(list) ==
    \A i, j \in DOMAIN list :
        i < j => /\ ~HasTime(list[j]) => ~HasTime(list[i])
                 /\ (HasTime(list[i]) /\ HasTime(list[j])) => TimeOf(list[i]) >= TimeOf(list[j])

ExampleTx1 == [kind |-> "OnChain", body |->
    [txid |-> 0, confirmation_time |-> Unconfirmed, output |-> <<>>, labels |-> <<>>]]

ExampleTx2 == [kind |-> "OnChain", body |->
    [txid |-> 0, confirmation_time |-> Confirmed(1, 1234), output |-> <<>>, labels |-> <<>>]]

ExampleInvoice1 == [kind |-> "Lightning", body |->
    [id |-> 1, node |-> 0, paid |-> TRUE, last_updated |-> 1681781585]]

ExampleInvoice2 == [kind |-> "Lightning", body |->
    [id |-> 1, node |-> 0, paid |-> TRUE, last_updated |-> 1781781585]]

ExampleClosure == [kind |-> "ChannelClosed", body |->
    [id |-> 1, node |-> 0, timestamp |-> 1686258926]]

\* C16: the ordering of ActivityItem is a total preorder, by last_updated with
\* the items without a timestamp greatest and equal to each other, so that an
\* ascending sort gives the timestamped items in non-decreasing order and
\* then the items without a timestamp, as in the example of the test.
C16_ActivityItemOrder ==
    view.op = "sort" =>
        LET items == {view.out[j] : j \in DOMAIN view.out}
        IN  /\ \A a, b \in items :
                  /\ ActivityItemCmp(a, b) = 0 - ActivityItemCmp(b, a)
                  /\ (HasTime(a) /\ HasTime(b)) =>
                         ActivityItemCmp(a, b) = IntCmp(TimeOf(a), TimeOf(b))
                  /\ (~HasTime(a) /\ HasTime(b)) => ActivityItemCmp(a, b) = 1
                  /\ (~HasTime(a) /\ ~HasTime(b)) => ActivityItemCmp(a, b) = 0
            /\ \A a, b, c \in items :
                  (ActivityItemCmp(a, b) <= 0 /\ ActivityItemCmp(b, c) <= 0)
                      => ActivityItemCmp(a, c) <= 0
            /\ \A i, j \in DOMAIN view.out :
                  i < j => /\ HasTime(view.out[j]) => HasTime(view.out[i])
                           /\ (HasTime(view.out[i]) /\ HasTime(view.out[j]))
                                  => TimeOf(view.out[i]) <= TimeOf(view.out[j])
            /\ Sort("oldest_first",
                    <<ExampleTx1, ExampleTx2, ExampleInvoice1, ExampleInvoice2, ExampleClosure>>)
               = <<ExampleTx2, ExampleInvoice1, ExampleClosure, ExampleInvoice2, ExampleTx1>>

\* a sorted list that ends with two unconfirmed transactions, after three
\* timestamped items of two different times
C16_Witness ==
    /\ view.op = "sort"
    /\ Len(view.out) = 5
    /\ HasTime(view.out[1]) /\ HasTime(view.out[3])
    /\ TimeOf(view.out[1]) < TimeOf(view.out[3])
    /\ ~HasTime(view.out[4]) /\ ~HasTime(view.out[5])

LabelsOfFirstLabelled(tx) ==
    LET labelled == {i \in DOMAIN tx.output : tx.output[i] \in DOMAIN address_labels}
    IN  IF labelled = {} THEN <<>>
        ELSE address_labels[tx.output[CHOOSE i \in labelled : \A k \in labelled : i <= k]]

\* C18: list_onchain and get_transaction report the same labels for a
\* transaction: those stored for its first output whose address is in the
\* address-label map, and none when no output address is in the map.
C18_LabelsOfFirstLabelledOutput ==
    [][(Returns("list_onchain") \/ Returns("get_transaction")) =>
          /\ \A i \in DOMAIN view'.out :
                view'.out[i].labels = LabelsOfFirstLabelled(wallet_txs[view'.out[i].txid])
          /\ {view'.out[i].txid : i \in DOMAIN view'.out} \subseteq {tx.txid : tx \in WalletTxs}
          /\ Returns("list_onchain") => Len(view'.out) = Cardinality(WalletTxs)
          /\ Returns("get_transaction") =>
                Len(view'.out) = (IF wallet_txs[view'.txid] = NoItem THEN 0 ELSE 1)]_vars

\* a transaction paying two labelled addresses is reported with the labels of
\* the first
C18_Witness ==
    /\ view.op = "get_transaction"
    /\ Len(view.out) = 1
    /\ view.out[1].output = <<2, 1>>
    /\ DOMAIN address_labels = {1, 2}
    /\ address_labels[1] = <<"other">>
    /\ view.out[1].labels = <<"label1", "label2">>

(* ========================= the redshift runner ========================= *)

\* the place of a status in ChannelPending -> ChannelOpened ->
\* AttemptingPayments -> ClosingChannels -> Completed; Failed ends any of them
StatusRank(status) ==
    CASE status = "none" -> 0
      [] status = "ChannelPending" -> 1
      [] status = "ChannelOpened" -> 2
      [] status = "AttemptingPayments" -> 3
      [] status = "ClosingChannels" -> 4
      [] status = "Completed" -> 5
      [] status = "Failed" -> 6

\* C19: the persisted status of a redshift only moves forward, and the
\* steady-state loop changes no record that is not in ChannelOpened.
C19_StatusOnlyForward ==
    [][/\ \A r \in RedshiftIds : StatusRank(redshifts'[r]) >= StatusRank(redshifts[r])
       /\ (rs_pc = "top" /\ rs_pc' # "top") =>
             \A r \in RedshiftIds :
                 redshifts'[r] # redshifts[r] => redshifts[r] = "ChannelOpened"]_vars

\* the tasks the step has spawned
NewDrivers == SubSeq(drivers', Len(drivers) + 1, Len(drivers'))

TasksFor(list, kind, r) ==
    Cardinality({i \in DOMAIN list : list[i].kind = kind /\ list[i].id = r})

\* C20: the recovery starts one resume-payments task for each persisted
\* redshift in AttemptingPayments, one resume-closing task for each in
\* ClosingChannels, nothing for any other record, and changes no record; a
\* failed read of the redshifts counts as an empty list.
C20_RecoveryTasks ==
    [][(rs_pc = "off" /\ rs_pc' # "off") =>
          /\ redshifts' = redshifts
          /\ SubSeq(drivers', 1, Len(drivers)) = drivers
          /\ rs_read' = "err" => NewDrivers = <<>>
          /\ rs_read' = "ok" =>
                \A r \in RedshiftIds :
                    /\ TasksFor(NewDrivers, "attempt_payments", r)
                          = (IF redshifts[r] = "AttemptingPayments" THEN 1 ELSE 0)
                    /\ TasksFor(NewDrivers, "close_channels", r)
                          = (IF redshifts[r] = "ClosingChannels" THEN 1 ELSE 0)
                    /\ \A i \in DOMAIN NewDrivers :
                          NewDrivers[i].id = r => NewDrivers[i].status = redshifts[r]]_vars

\* the recovery has resumed the payments of one redshift and the closing of
\* the other
C20_Witness ==
    /\ rs_pc = "top"
    /\ rs_read = "ok"
    /\ Len(drivers) = 2
    /\ drivers[1].kind = "attempt_payments" /\ drivers[1].state = "running"
    /\ drivers[2].kind = "close_channels" /\ drivers[2].state = "running"
    /\ redshifts[drivers[1].id] = "AttemptingPayments"
    /\ redshifts[drivers[2].id] = "ClosingChannels"

(* ------------------------------- C21 ----------------------------------- *)

\* the entry of the persisted registry under uuid u is kept by the step: it is
\* still there, with its child_index, and archived if it was
EntryKept(u) ==
    /\ u \in DOMAIN persisted'
    /\ persisted'[u].child_index = persisted[u].child_index
    /\ persisted[u].archived => persisted'[u].archived

InvoiceAmountOrFallback(i, invoice) ==
    LET a == invoice.amount_milli_satoshis
    IN  IF a = None \/ a = Some(0)
        THEN (IF i.amt_msat = None THEN None ELSE Some(i.amt_msat[1] \div 1000))
        ELSE Some(a[1] \div 1000)

\* what is said of a payment with a bolt11, less the payee's key
Bolt11Kept(i, out) ==
    LET invoice == i.bolt11[1]
    IN  /\ out.bolt11 = Some(invoice)
        /\ out.payment_hash = invoice.payment_hash
        /\ out.amount_sats = InvoiceAmountOrFallback(i, invoice)
        /\ out.expire = invoice.timestamp + invoice.expiry_time
        /\ (i.status = "Succeeded" =>
               /\ out.paid
               /\ i.preimage # None => out.preimage = Some(to_hex(i.preimage[1])))

\* what is said of a payment without a bolt11
KeysendKept(p, out) ==
    LET i == p.i
    IN  /\ out.bolt11 = None
        /\ out.payment_hash = p.payment_hash
        /\ out.amount_sats = (IF i.amt_msat = None THEN None ELSE Some(i.amt_msat[1] \div 1000))
        /\ out.fees_paid =
              (IF i.fee_paid_msat = None THEN None ELSE Some(i.fee_paid_msat[1] \div 1000))
        /\ out.payee_pubkey = i.payee_pubkey
        /\ out.expire = i.last_update
        /\ out.last_updated = i.last_update

\* C22: the MutinyInvoice made of a PaymentInfo with a bolt11 has the invoice's
\* payment hash, payee pubkey and amount (msat / 1000, the PaymentInfo's amount
\* when the invoice's is absent or 0), expire = timestamp + expiry time, and
\* for a Succeeded payment paid = true and the preimage in hex; without a
\* bolt11 it has bolt11 = None, amt_msat / 1000, fee_paid_msat / 1000, the
\* payee given and expire = last_updated = last_update.
C22_ConversionPreserves ==
    converted # NoConversion =>
        IF payment.i.bolt11 # None
        THEN /\ Bolt11Kept(payment.i, converted)
             /\ converted.payee_pubkey = payment.i.bolt11[1].payee_pub_key
        ELSE KeysendKept(payment, converted)

\* everything C22 says but the payee's key of a payment with a bolt11
ConversionPreservesButPayee ==
    converted # NoConversion =>
        IF payment.i.bolt11 # None
        THEN Bolt11Kept(payment.i, converted)
        ELSE KeysendKept(payment, converted)

(* ------------------------------- C23 ----------------------------------- *)

\* C23: has_node_manager is false for a storage without a mnemonic and true
\* after a successful construction; a mnemonic supplied in the configuration
\* overwrites the stored one and is what show_seed returns; without one the
\* stored mnemonic is reused, and a fresh 12-word mnemonic is generated and
\* stored only when none is stored.
C23_MnemonicLoadOrGenerate ==
    /\ (has_nm # NoHasNm /\ has_nm.stored = None) => ~has_nm.result
    /\ mgr = "up" =>
          /\ has_node_manager("ok")
          /\ seed_cfg.supplied # None =>
                 stored_mnemonic = seed_cfg.supplied /\ show_seed = seed_cfg.supplied[1]
          /\ (seed_cfg.supplied = None /\ seed_cfg.before # None) =>
                 /\ ~seed_cfg.generated
                 /\ stored_mnemonic = seed_cfg.before
                 /\ show_seed = seed_cfg.before[1]
          /\ (seed_cfg.supplied = None /\ seed_cfg.before = None) =>
                 /\ seed_cfg.generated
                 /\ show_seed.words = 12
                 /\ show_seed \notin Mnemonics
                 /\ stored_mnemonic = Some(show_seed)

(* ------------------------------- C24 ----------------------------------- *)

\* C24: the object export_json returns holds every key of the storage with its
\* value, except the logs key and the network-graph key; no other key is left
\* out, the gossip sync timestamp and the scorer included.
C24_ExportAllButLogsAndGraph ==
    [][(exported' # exported /\ exported'.ok) =>
          /\ DOMAIN exported'.value = DOMAIN scan \ {LOGGING_KEY, NETWORK_GRAPH_KEY}
          /\ \A k \in DOMAIN exported'.value : exported'.value[k] = scan[k]]_vars

\* an export of a storage that holds all six keys: the timestamp and the scorer
\* are in the object, the logs and the graph are not
C24_Witness ==
    /\ exported # NoExport
    /\ exported.ok
    /\ DOMAIN other_keys = OtherKeys
    /\ DOMAIN exported.value =
          {MNEMONIC_KEY, NODES_KEY, GOSSIP_SYNC_TIME_KEY, PROB_SCORER_KEY}

(* ------------------------------- C25 ----------------------------------- *)

\* p holds the registry-mirror mutex and waits for the running-map mutex
HoldsMirrorWaitsMap(p) == pc[p] = "nn_insert" /\ node_storage_lock = p

\* q holds the running-map mutex and waits for the registry-mirror mutex
HoldsMapWaitsMirror(q) == pc[q] = "ar_uuid" /\ nodes_lock = q

\* C25: the operations that hold both mutexes take the registry-mirror mutex
\* first, so no task waits for the registry-mirror mutex while it holds the
\* running-map mutex, and a new_node call and an archive_node call never
\* wait for each other's mutex.
C25_MirrorBeforeMap ==
    /\ \A q \in Tasks : ~HoldsMapWaitsMirror(q)
    /\ \A p, q \in Tasks : ~(HoldsMirrorWaitsMap(p) /\ HoldsMapWaitsMirror(q))

(* ------------------------------- C26 ----------------------------------- *)

\* t is suspended on node or network I/O: the chain sync of sync_ldk, the
\* peer connection of connect_to_peer, the invoice creation of create_invoice
SuspendedOnIo(t) ==
    \/ t = SyncTask /\ sync_pc = "ldk"
    \/ t \in Tasks /\ pc[t] \in {"cp_io", "ci_io"}

\* C26: no task but one inside stop() holds the running-map mutex while it is
\* suspended on node or network I/O: sync_ldk, connect_to_peer and
\* create_invoice have released it before they await.
C26_MapReleasedBeforeIo ==
    \A t \in Tasks \cup {SyncTask} : nodes_lock = t => ~SuspendedOnIo(t)

(* ------------------------------- C27 ----------------------------------- *)

\* this iteration's nm.sync() has synced the nodes and the wallet
IterationSynced == ldk_sync = "ok" /\ wallet_sync = "ok"

\* C27: the done_first_sync flag is written only by an iteration whose sync
\* succeeded: a step that sets it ends an iteration in which both the
\* Lightning sync and the wallet's sync returned Ok.
C27_FlagOnlyAfterSuccessfulSync ==
    [][(~done_first_sync /\ done_first_sync') => IterationSynced']_vars

(* ------------------------------- C28 ----------------------------------- *)

\* the loop task is inside its loop
InLoop == sync_pc \in {"top", "fee", "sync", "ldk_lock", "ldk", "wallet", "nap"}

\* the step is one of the loop task
LoopStep == <<sync_pc, nap, sync_count>>' # <<sync_pc, nap, sync_count>>

\* the step ends nm.sync() of this iteration
SyncReturns == sync_pc \in {"sync", "ldk", "wallet"} /\ sync_pc' \in {"nap", "returned"}

\* C28: no failure of the fee refresh, of the Lightning sync or of the wallet's
\* sync ends the loop. While the stop flag is false the task leaves the loop
\* nowhere: the fee refresh is followed by the sync, the sync (failed or not)
\* by the sleep, and the last nap of the sleep by the next iteration.
C28_FailureNeverEndsLoop ==
    [][(InLoop /\ ~stop /\ LoopStep) =>
          /\ sync_pc' # "returned"
          /\ sync_pc = "fee" => sync_pc' = "sync"
          /\ SyncReturns => (sync_pc' = "nap" /\ nap' = 0)
          /\ sync_pc = "nap" =>
                \/ sync_pc' = "nap" /\ nap' = nap + 1 /\ sync_count' = sync_count
                \/ sync_pc' = "top" /\ nap + 1 = NAPS /\ sync_count' = sync_count + 1]_vars

\* the iteration after one whose Lightning sync failed begins
C28_Witness ==
    /\ sync_pc = "top"
    /\ sync_count = 1
    /\ ldk_sync = "err"
    /\ ~stop

(* ------------------------------- C29 ----------------------------------- *)

\* C29: the loop refreshes the fee estimates exactly in the iterations whose
\* index is a multiple of 10, before the iteration's sync: an iteration that is
\* not stopped at its top starts with the refresh if and only if its index is
\* 0, 10, 20, ..., the refresh starts nowhere else, and it is followed by the
\* sync.
C29_FeesEveryTenth ==
    [][LoopStep =>
          /\ (sync_pc = "top" /\ ~stop) =>
                (IF sync_count % 10 = 0 THEN sync_pc' = "fee" ELSE sync_pc' = "sync")
          /\ sync_pc' = "fee" => (sync_pc = "top" /\ sync_count % 10 = 0)
          /\ sync_pc = "fee" => (sync_pc' = "sync" /\ sync_count' = sync_count)]_vars

\* the refresh of iteration 10 is under way
C29_Witness ==
    /\ sync_pc = "fee"
    /\ sync_count = 10

(* ------------------------------- C30 ----------------------------------- *)

\* C30: in the loop the payment task of a record read in ChannelOpened is
\* spawned only once AttemptingPayments is persisted for it: after an
\* iteration every task it has spawned finds its record persisted as
\* AttemptingPayments, and no payment task runs for a record whose persisted
\* status is still ChannelOpened.
C30_PersistedBeforeSpawn ==
    [][/\ (rs_pc = "top" /\ rs_pc' = "sleep") =>
             \A j \in DOMAIN NewDrivers :
                 redshifts'[NewDrivers[j].id] = "AttemptingPayments"
       /\ \A i \in DOMAIN drivers' :
             (drivers'[i].kind = "attempt_payments" /\ drivers'[i].state = "running") =>
                 redshifts'[drivers'[i].id] # "ChannelOpened"]_vars

(* ------------------------------- C31 ----------------------------------- *)

\* the loop has advanced a record: one it read in ChannelOpened is persisted
\* as AttemptingPayments
LoopAdvances ==
    \E r \in RedshiftIds :
        redshifts[r] = "ChannelOpened" /\ redshifts'[r] = "AttemptingPayments"

\* the loop's task exists: start_redshifts has spawned it
LoopSpawned == rs_pc # "off"

\* C31: once the stop flag is set the steady-state loop advances no further
\* record and spawns no further payment task, and under fairness the loop's
\* task terminates.
C31_StoppedLoopEnds ==
    /\ [][(stop /\ LoopSpawned) =>
             (~LoopAdvances /\ Len(drivers') = Len(drivers))]_vars
    /\ (stop /\ LoopSpawned) ~> (rs_pc = "done")

\* the loop has ended on the flag, after an iteration that gave a record its
\* task, while a record is still waiting in ChannelOpened
C31_Witness ==
    /\ stop
    /\ rs_pc = "done"
    /\ \E i \in DOMAIN drivers : drivers[i].kind = "attempt_payments"
    /\ \E r \in RedshiftIds : redshifts[r] = "ChannelOpened"

(* ------------------------------- C32 ----------------------------------- *)

\* the list has every connected peer before every disconnected peer and,
\* within each of the two, ascends by alias, then pubkey, then
\* connection_string
ConnectedFirst(list) ==
    \A i, j \in DOMAIN list :
        i < j =>
           /\ list[i].is_connected \/ ~list[j].is_connected
           /\ list[i].is_connected = list[j].is_connected =>
                 ThenWith(OptionCmp(list[i].alias, list[j].alias),
                 ThenWith(IntCmp(list[i].pubkey, list[j].pubkey),
                          OptionCmp(list[i].connection_string,
                                    list[j].connection_string))) <= 0

\* C32: the list list_peers returns is sorted by is_connected descending
\* (every connected peer before every disconnected one), then by alias, then
\* pubkey, then connection_string.
C32_ConnectedPeersFirst ==
    view.op = "list_peers" => ConnectedFirst(view.list)

(* ------------------------------- C33 ----------------------------------- *)

\* the entries of the list under a pubkey
EntriesOf(list, pubkey) == {i \in DOMAIN list : list[i].pubkey = pubkey}

\* the metadata of an entry
MetadataOf(peer) ==
    [connection_string |-> peer.connection_string, alias |-> peer.alias,
     color |-> peer.color, label |-> peer.label]

\* the list is the union of the saved and the connected peers, without the
\* condition that a pubkey appears once
UnionOfSavedAndConnected(list, saved, connected) ==
    /\ {list[i].pubkey : i \in DOMAIN list} = DOMAIN saved \cup connected
    /\ \A i \in DOMAIN list :
          /\ list[i].is_connected <=> list[i].pubkey \in connected
          /\ list[i].pubkey \in DOMAIN saved =>
                MetadataOf(list[i]) = saved[list[i].pubkey]
          /\ list[i].pubkey \notin DOMAIN saved => MetadataOf(list[i]) = NoMetadata

\* C33: list_peers returns the union of the saved peers and the peers
\* connected to any running node: every pubkey of either appears exactly
\* once, is_connected says whether the pubkey is connected to at least one
\* node, a saved peer keeps its metadata and a peer that is only connected
\* has none.
C33_EachPeerOnce ==
    view.op = "list_peers" =>
       /\ UnionOfSavedAndConnected(view.list, view.saved, view.connected)
       /\ \A k \in DOMAIN view.saved \cup view.connected :
             Cardinality(EntriesOf(view.list, k)) = 1

(* ------------------------------- C34 ----------------------------------- *)

\* the uuids of the handles of a running map
UuidsOf(map) == {map[k].uuid : k \in DOMAIN map}

\* the entries of a registry that are not archived
NotArchived(ns) == {u \in DOMAIN ns : ~ns[u].archived}

\* C34: after a successful construction the running map holds exactly one
\* handle for every non-archived entry of the NodeStorage read at startup and
\* none for an archived entry; a construction that fails in a Node::new (or
\* before) makes no manager and leaves the persisted NodeStorage as it was.
C34_HandlesForUnarchived ==
    [][/\ ConstructOk(StorageConns, LspUrls) =>
             /\ UuidsOf(nodes') = NotArchived(persisted)
             /\ Cardinality(DOMAIN nodes') = Cardinality(NotArchived(persisted))
             /\ \A k \in DOMAIN nodes' :
                   nodes'[k].child_index = persisted[nodes'[k].uuid].child_index
       /\ ConstructErr => (mgr' = "none" /\ persisted' = persisted)]_vars

\* a manager was just made on a storage that holds an archived entry and one
\* that is not: the second has its handle, the first has none
C34_Witness ==
    /\ mgr = "up"
    /\ ret = "none"
    /\ \A p \in Tasks : IsIdle(p)
    /\ \E u \in DOMAIN node_storage : node_storage[u].archived /\ u \notin UuidsOf(nodes)
    /\ \E u \in DOMAIN node_storage : ~node_storage[u].archived /\ u \in UuidsOf(nodes)

(* ------------------------------- C35 ----------------------------------- *)

\* C35: when archive_node(p) returns Ok the handle of p is no longer in the
\* running map (so that get_node, open_channel, pay_invoice and
\* connect_to_peer addressed to p return NotFound).
C35_ArchivedHandleRemoved ==
    [][\A p \in Procs :
          (pc[p] = "ar_uuid" /\ pc'[p] = "idle" /\ ret' = "ar_ok") =>
             ar[p].pubkey \notin DOMAIN nodes']_vars

(* ------------------------------- C36 ----------------------------------- *)

\* create_bip21 returns to caller p in this step
Bip21Returns(p) == pc[p] \in {"b21_lock", "b21_io"} /\ pc'[p] = "idle"

\* C36: create_bip21(amount, labels) is atomic: when it returns Ok a new
\* invoice and a fresh address exist, both with the labels of the call, and
\* when it returns an error no invoice was created and no address was
\* handed out.
C36_Bip21Atomic ==
    [][\A p \in Procs :
          Bip21Returns(p) =>
             IF bip21_ret'.ok
             THEN /\ Len(node_invoices') = Len(node_invoices) + 1
                  /\ bip21_ret'.invoice = Len(node_invoices')
                  /\ node_invoices'[bip21_ret'.invoice].labels = bip21_args[p].labels
                  /\ last_revealed' = last_revealed + 1
                  /\ bip21_ret'.address = last_revealed'
                  /\ address_labels'[bip21_ret'.address] = bip21_args[p].labels
             ELSE /\ node_invoices' = node_invoices
                  /\ last_revealed' = last_revealed
                  /\ address_labels' = address_labels]_vars

(* ------------------------------- C37 ----------------------------------- *)

C38_MirrorEqualsPersisted ==
    (mgr = "up" /\ node_storage_lock = NoOne) => node_storage = persisted

(* ------------------------------- C39 ----------------------------------- *)

\* C39: once the stop flag of a manager is set no step adds a handle to its
\* running map (so that after stop() has returned the map stays empty),
\* whether a new_node call was in flight when stop() ran or is made later.
C39_NoHandleOnceStopped ==
    [][(stop /\ stop') => DOMAIN nodes' \subseteq DOMAIN nodes]_vars

(* ------------------------------- C40 ----------------------------------- *)

\* the payment tasks (attempt_payments) the runner has spawned for record r
PaymentDrivers(r) ==
    {i \in DOMAIN drivers : drivers[i].id = r /\ drivers[i].kind = "attempt_payments"}

\* C40: for every redshift record the runner spawns at most one payment task,
\* over the recovery and all iterations of the loop, also when persisting
\* AttemptingPayments fails.
C40_OnePaymentDriver ==
    \A r \in RedshiftIds : Cardinality(PaymentDrivers(r)) <= 1

====
